---- MODULE Spec2Model ----
(***************************************************************************)
(* A model of the rrc compiler pipeline (saturn691/rrc):                   *)
(*   tokens --Parser::parse--> ast::Node --hir_build--> hir::Body          *)
(* The recursive-descent parser and the AST->HIR lowering are pure         *)
(* functions of their input; each is modelled as a family of RECURSIVE     *)
(* operators that thread the mutable state of the Rust struct (Parser's    *)
(* index, Builder's vectors) through their results.  A Rust panic          *)
(* (assert_eq!, expect, unimplemented!, unwrap) is an explicit outcome.    *)
(***************************************************************************)
EXTENDS Integers, Sequences, FiniteSets, TLC

VARIABLES
    tokens,     \* Parser.tokens
    index,      \* Parser.index
    parsed,     \* what Parser::parse returned (NotRun before the call)
    root,       \* the ast::Node handed to hir_build
    hir,        \* what hir_build returned (NotRun before the call)
    codegen_body, \* Codegen.body: the hir::Body handed to lir_build
    lir,        \* what lir_build returned (NotRun before the call)
    stderr,     \* the messages written to the standard error stream
    output,     \* the contents of the output file, None while not written
    exit_status, \* the exit status of the process, None while it runs
    lex_input,  \* lexer: the characters tokenize was called with
    cursor,     \* lexer: the Cursor the iterator of tokenize owns
    lexed,      \* lexer: the tokens the iterator has yielded so far
    pc          \* position of the driver: "new", "parsed", "lowered", "emitted",
                \* "exited"; of the lexer: "new", "lexing", "lexed"

vars == <<tokens, index, parsed, root, hir, codegen_body, lir, stderr, output, exit_status, lex_input, cursor, lexed, pc>>

\* the state of the lexer
lexvars == <<lex_input, cursor, lexed>>

(***************************************************************************)
(* Bounds of the model.                                                    *)
(***************************************************************************)
\* longest operator chain x0 op x1 ... op xn (number of operators)
MaxChain == 3
\* most statements in one generated block
MaxStmts == 2
\* most AST nodes in one generated expression handed to hir_build
MaxNodes == 4
\* number of basic blocks of a control-flow graph handed to lir_build
MaxBlocks == 4
\* most characters in one string handed to tokenize
MaxInput == 3

(***************************************************************************)
(* lexer::Token as the parser sees it: a kind and, for Identifier and      *)
(* Number, the text.                                                       *)
(***************************************************************************)
Tok(k) == [k |-> k, v |-> ""]
Identifier(id) == [k |-> "Identifier", v |-> id]
Number(n) == [k |-> "Number", v |-> n]
\* Option::None of peek / eat_token
NoToken == [k |-> "NoToken", v |-> ""]

(***************************************************************************)
(* Option and Result.                                                      *)
(***************************************************************************)
None == [kind |-> "None"]
Some(x) == [kind |-> "Some", val |-> x]

NotRun == [st |-> "NotRun", val |-> None, msg |-> ""]
Ok(x, i) == [st |-> "Ok", val |-> x, msg |-> "", i |-> i]
Err(m, i) == [st |-> "Err", val |-> None, msg |-> m, i |-> i]
Panic(m, i) == [st |-> "Panic", val |-> None, msg |-> m, i |-> i]

(***************************************************************************)
(* ast: the tagged tree.                                                   *)
(***************************************************************************)
Literal(v) == [kind |-> "Literal", value |-> v]
Path(id) == [kind |-> "Path", segments |-> <<id>>]
Unary(op, e) == [kind |-> "Unary", op |-> op, expr |-> e]
Binary(l, op, r) == [kind |-> "Binary", left |-> l, op |-> op, right |-> r]
If(c, t, e) == [kind |-> "If", cond |-> c, then |-> t, else |-> e]
BlockExpr(b) == [kind |-> "Block", block |-> b]
Block(stmts) == [stmts |-> stmts]
StmtExpr(e) == [kind |-> "Expr", expr |-> e]
StmtSemi(e) == [kind |-> "Semi", expr |-> e]
StmtLet(id, ty, e) == [kind |-> "Let", pat |-> id, ty |-> ty, init |-> e]
FnNode(attrs, vis, name, rty, body) ==
    [kind |-> "Fn", attrs |-> attrs, vis |-> vis, identifier |-> name,
     sig |-> [inputs |-> <<>>, return_type |-> rty], body |-> body]

(***************************************************************************)
(* Parser helper functions.                                                *)
(***************************************************************************)
\* self.tokens.get(self.index + offset)
peek(toks, i, offset) ==
    IF i + offset < Len(toks) THEN toks[i + offset + 1] ELSE NoToken

\* returns the token (or NoToken) and always advances the index
eat_token(toks, i) ==
    [tok |-> IF i < Len(toks) THEN toks[i + 1] ELSE NoToken, i |-> i + 1]

expect_identifier(toks, i) ==
    LET e == eat_token(toks, i) IN
    IF e.tok = NoToken
    THEN Err("Unexpected end of input, expected identifier", e.i)
    ELSE IF e.tok.k = "Identifier"
         THEN Ok(e.tok.v, e.i)
         ELSE Err("Unexpected token, expected identifier", e.i)

\* panics when there is no next token or it differs from `kind`
consume(toks, i, kind) ==
    LET e == eat_token(toks, i) IN
    IF e.tok = NoToken
    THEN Panic("Expected to consume token, but there was no next token", e.i)
    ELSE IF e.tok = kind
         THEN Ok(None, e.i)
         ELSE Panic("Expected token, but found another", e.i)

(***************************************************************************)
(* The recursive descent.  Every operator takes the token vector and the   *)
(* index and returns Ok(value, index'), Err(message, index') or            *)
(* Panic(message, index').  A Rust function that calls other parse         *)
(* functions in sequence is written as one operator per call: the operator *)
(* named f_x receives the result of the call before it (`?` returns an     *)
(* Err to the caller, a panic unwinds) and goes on to the next.            *)
(***************************************************************************)
RECURSIVE parse_statements_loop(_, _, _)
RECURSIVE parse_expression(_, _)
RECURSIVE parse_block_common(_, _)
RECURSIVE parse_if(_, _)
RECURSIVE parse_comparison(_, _)
RECURSIVE parse_or_loop(_, _, _)
RECURSIVE parse_xor_loop(_, _, _)
RECURSIVE parse_and_loop(_, _, _)
RECURSIVE parse_shift_loop(_, _, _)
RECURSIVE parse_additive_loop(_, _, _)
RECURSIVE parse_multiplicative_loop(_, _, _)
RECURSIVE parse_unary(_, _)
RECURSIVE parse_attributes_loop(_, _, _)

\* the `while let Some(token) = self.peek(0)` loop of parse_attributes
parse_attributes_loop(toks, i, attrs) ==
    LET token == peek(toks, i, 0)
        c == consume(toks, i, Tok("CloseBracket"))
        id == expect_identifier(toks, i) IN
    IF token = NoToken THEN Ok(attrs, i)
    ELSE IF token.k = "CloseBracket"
    THEN IF c.st # "Ok" THEN c ELSE Ok(attrs, c.i)
    ELSE IF token.k = "Identifier"
    THEN IF id.st # "Ok" THEN id
         ELSE parse_attributes_loop(toks, id.i, Append(attrs, Path(id.val)))
    ELSE Err("Unexpected token in attributes", i)

\* parse_attributes after `#`: consume `[`, then the loop
parse_attributes_open(toks, c1) ==
    LET c2 == consume(toks, c1.i, Tok("OpenBracket")) IN
    IF c1.st # "Ok" THEN c1
    ELSE IF c2.st # "Ok" THEN c2
    ELSE parse_attributes_loop(toks, c2.i, <<>>)

parse_attributes(toks, i) ==
    IF peek(toks, i, 0) # Tok("Hash") THEN Ok(<<>>, i)
    ELSE parse_attributes_open(toks, consume(toks, i, Tok("Hash")))

parse_visibility(toks, i) ==
    LET c == consume(toks, i, Tok("Pub")) IN
    IF peek(toks, i, 0) = Tok("Pub")
    THEN IF c.st # "Ok" THEN c ELSE Ok("Public", c.i)
    ELSE Ok("Private", i)

\* the identifier spellings parse_type knows, with the PrimitiveType of each
parse_type_table ==
    [id \in {"i8", "i16", "i32", "i64"} |->
        CASE id = "i8" -> "I8"
          [] id = "i16" -> "I16"
          [] id = "i32" -> "I32"
          [] id = "i64" -> "I64"]

parse_type(toks, i) ==
    LET id == expect_identifier(toks, i) IN
    IF id.st # "Ok" THEN id
    ELSE IF id.val \in DOMAIN parse_type_table
         THEN Ok(parse_type_table[id.val], id.i)
         ELSE Err("Unknown type", id.i)

\* parse_block_common after parse_statements: consume `}`, build the Block
parse_block_common_close(toks, statements) ==
    LET c2 == consume(toks, statements.i, Tok("CloseBrace")) IN
    IF statements.st # "Ok" THEN statements
    ELSE IF c2.st # "Ok" THEN c2
    ELSE Ok(Block(statements.val), c2.i)

\* parse_block_common after `{`: parse_statements
parse_block_common_open(toks, c1) ==
    IF c1.st # "Ok" THEN c1
    ELSE parse_block_common_close(toks, parse_statements_loop(toks, c1.i, <<>>))

parse_block_common(toks, i) ==
    parse_block_common_open(toks, consume(toks, i, Tok("OpenBrace")))

\* parse_block_expr after parse_block_common: wrap the block in an Expr
parse_block_expr_wrap(block) ==
    IF block.st # "Ok" THEN block ELSE Ok(BlockExpr(block.val), block.i)

parse_block_expr(toks, i) == parse_block_expr_wrap(parse_block_common(toks, i))

\* parse_let after its initialiser expression: consume `;`, build the Let
parse_let_close(toks, id, ty, expr) ==
    LET c3 == consume(toks, expr.i, Tok("Semicolon")) IN
    IF expr.st # "Ok" THEN expr
    ELSE IF c3.st # "Ok" THEN c3
    ELSE Ok(StmtLet(id.val, ty.val, expr.val), c3.i)

\* parse_let: the optional `: TYPE`
parse_let_ty(toks, i) ==
    LET c == consume(toks, i, Tok("Colon"))
        t == parse_type(toks, c.i) IN
    IF peek(toks, i, 0) = Tok("Colon")
    THEN IF c.st # "Ok" THEN c
         ELSE IF t.st # "Ok" THEN t ELSE Ok(Some(t.val), t.i)
    ELSE Ok(None, i)

\* parse_let after the optional type: consume `=`, parse the initialiser
parse_let_init(toks, id, ty) ==
    LET c2 == consume(toks, ty.i, Tok("Eq")) IN
    IF ty.st # "Ok" THEN ty
    ELSE IF c2.st # "Ok" THEN c2
    ELSE parse_let_close(toks, id, ty, parse_expression(toks, c2.i))

\* parse_let after the identifier
parse_let_id(toks, id) ==
    IF id.st # "Ok" THEN id ELSE parse_let_init(toks, id, parse_let_ty(toks, id.i))

\* parse_let after `let`
parse_let_let(toks, c1) ==
    IF c1.st # "Ok" THEN c1 ELSE parse_let_id(toks, expect_identifier(toks, c1.i))

parse_let(toks, i) == parse_let_let(toks, consume(toks, i, Tok("Let")))

\* parse_statement after parse_expression: Semi when `;` follows, else Expr
parse_statement_classify(toks, expr) ==
    LET c == consume(toks, expr.i, Tok("Semicolon")) IN
    IF expr.st # "Ok" THEN expr
    ELSE IF peek(toks, expr.i, 0) = Tok("Semicolon")
         THEN IF c.st # "Ok" THEN c ELSE Ok(StmtSemi(expr.val), c.i)
         ELSE Ok(StmtExpr(expr.val), expr.i)

parse_statement(toks, i) ==
    IF peek(toks, i, 0) = Tok("Let") THEN parse_let(toks, i)
    ELSE parse_statement_classify(toks, parse_expression(toks, i))

\* parse_statements: push the statement just parsed and loop
parse_statements_push(toks, statements, statement) ==
    IF statement.st # "Ok" THEN statement
    ELSE parse_statements_loop(toks, statement.i, Append(statements, statement.val))

\* parse_statements: the loop that collects statements up to `}` or the end
parse_statements_loop(toks, i, statements) ==
    LET token == peek(toks, i, 0) IN
    IF token = NoToken \/ token.k = "CloseBrace" THEN Ok(statements, i)
    ELSE parse_statements_push(toks, statements, parse_statement(toks, i))

parse_statements(toks, i) == parse_statements_loop(toks, i, <<>>)

\* parse_else after `else`: an `if`, a block, or an error
parse_else_arm(toks, c1) ==
    LET token == peek(toks, c1.i, 0) IN
    IF c1.st # "Ok" THEN c1
    ELSE IF token = Tok("If") THEN parse_if(toks, c1.i)
    ELSE IF token = Tok("OpenBrace") THEN parse_block_expr(toks, c1.i)
    ELSE Err("Unexpected token in else block", c1.i)

parse_else(toks, i) == parse_else_arm(toks, consume(toks, i, Tok("Else")))

\* parse_if after parse_else: build the If with Some(else_block)
parse_if_node(expression, block, else_block) ==
    IF else_block.st # "Ok" THEN else_block
    ELSE Ok(If(expression.val, block.val, Some(else_block.val)), else_block.i)

\* parse_if after the then-block: parse_else
parse_if_else(toks, expression, block) ==
    IF block.st # "Ok" THEN block
    ELSE parse_if_node(expression, block, parse_else(toks, block.i))

\* parse_if after the condition: parse_block_common
parse_if_block(toks, expression) ==
    IF expression.st # "Ok" THEN expression
    ELSE parse_if_else(toks, expression, parse_block_common(toks, expression.i))

\* parse_if after `if`: parse_expression
parse_if_cond(toks, c1) ==
    IF c1.st # "Ok" THEN c1 ELSE parse_if_block(toks, parse_expression(toks, c1.i))

parse_if(toks, i) == parse_if_cond(toks, consume(toks, i, Tok("If")))

\* parse_primary after `(` EXPRESSION: consume `)`
parse_primary_close(toks, expr) ==
    LET c == consume(toks, expr.i, Tok("CloseParen")) IN
    IF expr.st # "Ok" THEN expr
    ELSE IF c.st # "Ok" THEN c ELSE Ok(expr.val, c.i)

parse_primary(toks, i) ==
    LET e == eat_token(toks, i) IN
    IF e.tok = NoToken THEN Err("Unexpected end of input, expected primary", e.i)
    ELSE IF e.tok.k = "Number" THEN Ok(Literal(e.tok.v), e.i)
    ELSE IF e.tok.k = "Identifier" THEN Ok(Path(e.tok.v), e.i)
    ELSE IF e.tok = Tok("OpenParen")
    THEN parse_primary_close(toks, parse_expression(toks, e.i))
    ELSE Err("Unexpected token, expected primary", e.i)

parse_postfix(toks, i) == parse_primary(toks, i)

\* parse_unary after its operand: build the Unary
parse_unary_node(unop_kind, e) ==
    IF e.st # "Ok" THEN e ELSE Ok(Unary(unop_kind, e.val), e.i)

parse_unary(toks, i) ==
    LET token == peek(toks, i, 0)
        unop_kind == IF token = Tok("Minus") THEN Some("Negate")
                     ELSE IF token = Tok("Bang") THEN Some("Not")
                     ELSE None
        c == consume(toks, i, token) IN
    IF unop_kind = None THEN parse_postfix(toks, i)
    ELSE IF c.st # "Ok" THEN c
    ELSE parse_unary_node(unop_kind.val, parse_unary(toks, c.i))

parse_cast(toks, i) == parse_unary(toks, i)

\* the operator token (`*`, `/`, `%`) at the cursor and its BinOpKind, if any
parse_multiplicative_op(token) ==
    IF token = Tok("Star") THEN Some("Multiply")
    ELSE IF token = Tok("Slash") THEN Some("Divide")
    ELSE IF token = Tok("Percent") THEN Some("Modulo")
    ELSE None

\* parse_multiplicative: `left = Binary(left, op, right)` once the right operand is parsed
parse_multiplicative_fold(toks, left, bin_op_kind, right) ==
    IF right.st # "Ok" THEN right
    ELSE parse_multiplicative_loop(toks, right.i, Binary(left, bin_op_kind, right.val))

\* parse_multiplicative: the `while let Some(token) = self.peek(0)` loop
parse_multiplicative_loop(toks, i, left) ==
    LET token == peek(toks, i, 0)
        bin_op_kind == parse_multiplicative_op(token)
        c == consume(toks, i, token) IN
    IF bin_op_kind = None THEN Ok(left, i)
    ELSE IF c.st # "Ok" THEN c
    ELSE parse_multiplicative_fold(toks, left, bin_op_kind.val, parse_cast(toks, c.i))

\* parse_multiplicative: enter the loop with the first operand
parse_multiplicative_first(toks, left) ==
    IF left.st # "Ok" THEN left ELSE parse_multiplicative_loop(toks, left.i, left.val)

parse_multiplicative(toks, i) == parse_multiplicative_first(toks, parse_cast(toks, i))

\* the operator token (`+`, `-`) at the cursor and its BinOpKind, if any
parse_additive_op(token) ==
    IF token = Tok("Plus") THEN Some("Plus")
    ELSE IF token = Tok("Minus") THEN Some("Minus")
    ELSE None

\* parse_additive folding with the operands exchanged
parse_additive_fold_swapped(toks, left, bin_op_kind, right) ==
    IF right.st # "Ok" THEN right
    ELSE parse_additive_loop(toks, right.i, Binary(right.val, bin_op_kind, left))

\* parse_additive: `left = Binary(left, op, right)` once the right operand is parsed
parse_additive_fold(toks, left, bin_op_kind, right) ==
    IF right.st # "Ok" THEN right
    ELSE parse_additive_loop(toks, right.i, Binary(left, bin_op_kind, right.val))

\* parse_additive: the `while let Some(token) = self.peek(0)` loop
parse_additive_loop(toks, i, left) ==
    LET token == peek(toks, i, 0)
        bin_op_kind == parse_additive_op(token)
        c == consume(toks, i, token) IN
    IF bin_op_kind = None THEN Ok(left, i)
    ELSE IF c.st # "Ok" THEN c
    ELSE parse_additive_fold(toks, left, bin_op_kind.val, parse_multiplicative(toks, c.i))

\* parse_additive: enter the loop with the first operand
parse_additive_first(toks, left) ==
    IF left.st # "Ok" THEN left ELSE parse_additive_loop(toks, left.i, left.val)

\* parse_additive whose first operand is not a multiplicative expression
parse_additive_flat(toks, i) == parse_additive_first(toks, parse_cast(toks, i))

parse_additive(toks, i) == parse_additive_first(toks, parse_multiplicative(toks, i))

\* the operator token (`<<`, `>>`) at the cursor and its BinOpKind, if any
parse_shift_op(token) ==
    IF token = Tok("ShiftLeft") THEN Some("ShiftLeft")
    ELSE IF token = Tok("ShiftRight") THEN Some("ShiftRight")
    ELSE None

\* parse_shift: `left = Binary(left, op, right)` once the right operand is parsed
parse_shift_fold(toks, left, bin_op_kind, right) ==
    IF right.st # "Ok" THEN right
    ELSE parse_shift_loop(toks, right.i, Binary(left, bin_op_kind, right.val))

\* parse_shift: the `while let Some(token) = self.peek(0)` loop
parse_shift_loop(toks, i, left) ==
    LET token == peek(toks, i, 0)
        bin_op_kind == parse_shift_op(token)
        c == consume(toks, i, token) IN
    IF bin_op_kind = None THEN Ok(left, i)
    ELSE IF c.st # "Ok" THEN c
    ELSE parse_shift_fold(toks, left, bin_op_kind.val, parse_additive(toks, c.i))

\* parse_shift: enter the loop with the first operand
parse_shift_first(toks, left) ==
    IF left.st # "Ok" THEN left ELSE parse_shift_loop(toks, left.i, left.val)

parse_shift(toks, i) == parse_shift_first(toks, parse_additive(toks, i))

\* the operator token (`&`) at the cursor and its BinOpKind, if any
parse_and_op(token) ==
    IF token = Tok("And") THEN Some("BitAnd")
    ELSE None

\* parse_and: `left = Binary(left, op, right)` once the right operand is parsed
parse_and_fold(toks, left, bin_op_kind, right) ==
    IF right.st # "Ok" THEN right
    ELSE parse_and_loop(toks, right.i, Binary(left, bin_op_kind, right.val))

\* parse_and: the `while let Some(token) = self.peek(0)` loop
parse_and_loop(toks, i, left) ==
    LET token == peek(toks, i, 0)
        bin_op_kind == parse_and_op(token)
        c == consume(toks, i, token) IN
    IF bin_op_kind = None THEN Ok(left, i)
    ELSE IF c.st # "Ok" THEN c
    ELSE parse_and_fold(toks, left, bin_op_kind.val, parse_shift(toks, c.i))

\* parse_and: enter the loop with the first operand
parse_and_first(toks, left) ==
    IF left.st # "Ok" THEN left ELSE parse_and_loop(toks, left.i, left.val)

parse_and(toks, i) == parse_and_first(toks, parse_shift(toks, i))

\* the operator token (`^`) at the cursor and its BinOpKind, if any
parse_xor_op(token) ==
    IF token = Tok("Caret") THEN Some("BitXor")
    ELSE None

\* parse_xor: `left = Binary(left, op, right)` once the right operand is parsed
parse_xor_fold(toks, left, bin_op_kind, right) ==
    IF right.st # "Ok" THEN right
    ELSE parse_xor_loop(toks, right.i, Binary(left, bin_op_kind, right.val))

\* parse_xor: the `while let Some(token) = self.peek(0)` loop
parse_xor_loop(toks, i, left) ==
    LET token == peek(toks, i, 0)
        bin_op_kind == parse_xor_op(token)
        c == consume(toks, i, token) IN
    IF bin_op_kind = None THEN Ok(left, i)
    ELSE IF c.st # "Ok" THEN c
    ELSE parse_xor_fold(toks, left, bin_op_kind.val, parse_and(toks, c.i))

\* parse_xor: enter the loop with the first operand
parse_xor_first(toks, left) ==
    IF left.st # "Ok" THEN left ELSE parse_xor_loop(toks, left.i, left.val)

parse_xor(toks, i) == parse_xor_first(toks, parse_and(toks, i))

\* the operator token (`|`) at the cursor and its BinOpKind, if any
parse_or_op(token) ==
    IF token = Tok("Or") THEN Some("BitOr")
    ELSE None

\* parse_or: `left = Binary(left, op, right)` once the right operand is parsed
parse_or_fold(toks, left, bin_op_kind, right) ==
    IF right.st # "Ok" THEN right
    ELSE parse_or_loop(toks, right.i, Binary(left, bin_op_kind, right.val))

\* parse_or: the `while let Some(token) = self.peek(0)` loop
parse_or_loop(toks, i, left) ==
    LET token == peek(toks, i, 0)
        bin_op_kind == parse_or_op(token)
        c == consume(toks, i, token) IN
    IF bin_op_kind = None THEN Ok(left, i)
    ELSE IF c.st # "Ok" THEN c
    ELSE parse_or_fold(toks, left, bin_op_kind.val, parse_xor(toks, c.i))

\* parse_or: enter the loop with the first operand
parse_or_first(toks, left) ==
    IF left.st # "Ok" THEN left ELSE parse_or_loop(toks, left.i, left.val)

parse_or(toks, i) == parse_or_first(toks, parse_xor(toks, i))

\* the comparison token at the cursor and its BinOpKind, if any
parse_comparison_op(token) ==
    IF token = Tok("Lt") THEN Some("Lt")
    ELSE IF token = Tok("Gt") THEN Some("Gt")
    ELSE IF token = Tok("LtEq") THEN Some("Le")
    ELSE IF token = Tok("GtEq") THEN Some("Ge")
    ELSE IF token = Tok("EqEq") THEN Some("Eq")
    ELSE IF token = Tok("NotEq") THEN Some("Ne")
    ELSE None

\* parse_comparison after its right operand: build the Binary
parse_comparison_node(left, bin_op_kind, right) ==
    IF right.st # "Ok" THEN right
    ELSE Ok(Binary(left.val, bin_op_kind, right.val), right.i)

\* parse_comparison after its left operand: short circuit, or consume the
\* operator and parse the right operand with parse_comparison itself
parse_comparison_right(toks, left) ==
    LET token == peek(toks, left.i, 0)
        bin_op_kind == parse_comparison_op(token)
        c == consume(toks, left.i, token) IN
    IF left.st # "Ok" THEN left
    ELSE IF bin_op_kind = None THEN Ok(left.val, left.i)
    ELSE IF c.st # "Ok" THEN c
    ELSE parse_comparison_node(left, bin_op_kind.val, parse_comparison(toks, c.i))

parse_comparison(toks, i) == parse_comparison_right(toks, parse_or(toks, i))

parse_logical_and(toks, i) == parse_comparison(toks, i)

parse_logical_or(toks, i) == parse_logical_and(toks, i)

parse_ellipsis(toks, i) == parse_logical_or(toks, i)

parse_assignment(toks, i) == parse_ellipsis(toks, i)

parse_expression(toks, i) ==
    LET token == peek(toks, i, 0) IN
    IF token = Tok("If") THEN parse_if(toks, i)
    ELSE IF token = Tok("OpenBrace") THEN parse_block_expr(toks, i)
    ELSE parse_assignment(toks, i)

\* parse_fn after the body block: build the Node
parse_fn_node(attrs, vis, name, r_type, statements) ==
    IF statements.st # "Ok" THEN statements
    ELSE Ok(FnNode(attrs.val, vis.val, Some(name.val), r_type.val,
                   Some(statements.val)),
            statements.i)

\* parse_fn after the return type: parse_block_common
parse_fn_body(toks, attrs, vis, name, r_type) ==
    IF r_type.st # "Ok" THEN r_type
    ELSE parse_fn_node(attrs, vis, name, r_type, parse_block_common(toks, r_type.i))

\* parse_fn: the optional `-> TYPE`; void when absent
parse_fn_r_type(toks, i) ==
    LET c == consume(toks, i, Tok("RightArrow")) IN
    IF peek(toks, i, 0) = Tok("RightArrow")
    THEN IF c.st # "Ok" THEN c ELSE parse_type(toks, c.i)
    ELSE Ok("Void", i)

\* parse_fn after the name: consume `(` `)`, then the return type
parse_fn_params(toks, attrs, vis, name) ==
    LET c2 == consume(toks, name.i, Tok("OpenParen"))
        c3 == consume(toks, name.i + 1, Tok("CloseParen")) IN
    IF name.st # "Ok" THEN name
    ELSE IF c2.st # "Ok" THEN c2
    ELSE IF c3.st # "Ok" THEN c3
    ELSE parse_fn_body(toks, attrs, vis, name, parse_fn_r_type(toks, c3.i))

\* parse_fn after the visibility: consume `fn`, expect the name
parse_fn_name(toks, attrs, vis) ==
    LET c1 == consume(toks, vis.i, Tok("Fn")) IN
    IF vis.st # "Ok" THEN vis
    ELSE IF c1.st # "Ok" THEN c1
    ELSE parse_fn_params(toks, attrs, vis, expect_identifier(toks, c1.i))

\* parse_fn after the attributes: parse_visibility
parse_fn_vis(toks, attrs) ==
    IF attrs.st # "Ok" THEN attrs
    ELSE parse_fn_name(toks, attrs, parse_visibility(toks, attrs.i))

parse_fn(toks, i) == parse_fn_vis(toks, parse_attributes(toks, i))

\* Parser::parse, after the lexer filled self.tokens: index = 0, parse_fn
parse(toks) == parse_fn(toks, 0)

(***************************************************************************)
(* hir: places, operands, rvalues, statements, terminators, blocks.        *)
(* BasicBlock(n) and Place::Local(n) are the 0-based indices of the Rust   *)
(* vectors; element n of a vector is element n + 1 of the sequence.        *)
(***************************************************************************)
Local(n) == [kind |-> "Local", local |-> n]
Copy(place) == [kind |-> "Copy", place |-> place]
Const(ty, value) == [ty |-> ty, value |-> value]
Constant(c) == [kind |-> "Constant", const |-> c]
Use(operand) == [kind |-> "Use", operand |-> operand]
BinaryOp(op, l, r) == [kind |-> "BinaryOp", op |-> op, left |-> l, right |-> r]
UnaryOp(op, x) == [kind |-> "UnaryOp", op |-> op, operand |-> x]
Assign(place, rvalue) == [kind |-> "Assign", place |-> place, rvalue |-> rvalue]
Goto(target) == [kind |-> "Goto", target |-> target]
Return == [kind |-> "Return"]
Call(func, args, destination, target) ==
    [kind |-> "Call", func |-> func, args |-> args, destination |-> destination,
     target |-> target]
SwitchInt(value, values, blocks) ==
    [kind |-> "SwitchInt", value |-> value,
     targets |-> [values |-> values, blocks |-> blocks]]
User(name) == [kind |-> "User", name |-> name]
Temp == [kind |-> "Temp"]
LocalDecl(ty, local_info) == [mutable |-> FALSE, ty |-> ty, local_info |-> local_info]
BasicBlockData(statements, terminator) ==
    [statements |-> statements, terminator |-> terminator]
Body(name, basic_blocks, local_decls, consts, arg_count) ==
    [name |-> name, basic_blocks |-> basic_blocks, local_decls |-> local_decls,
     consts |-> consts, arg_count |-> arg_count]

\* Terminator::successors
successors(t) ==
    CASE t.kind = "Goto" -> <<t.target>>
      [] t.kind = "Call" -> <<t.target>>
      [] t.kind = "Return" -> <<>>
      [] t.kind = "SwitchInt" -> t.targets.blocks

(***************************************************************************)
(* lowering::Builder.  Every method takes the Builder b and returns the    *)
(* Builder it leaves behind with its return value: HOk(b', value), or      *)
(* HPanic(b', message) when it panics.                                     *)
(***************************************************************************)
Builder_new ==
    [basic_blocks |-> <<>>, local_decls |-> <<>>, consts |-> <<>>, call_frame |-> <<>>]

HOk(b, v) == [st |-> "Ok", b |-> b, val |-> v, msg |-> ""]
HPanic(b, m) == [st |-> "Panic", b |-> b, val |-> None, msg |-> m]

\* self.basic_blocks[bb.0].terminator = Some(t)
set_terminator(b, bb, t) == [b EXCEPT !.basic_blocks[bb + 1].terminator = Some(t)]
\* self.basic_blocks[bb.0].statements.push(stmt)
push_statement(b, bb, stmt) ==
    [b EXCEPT !.basic_blocks[bb + 1].statements = Append(@, stmt)]
\* self.call_frame.push(frame), self.call_frame.pop()
push_frame(b, frame) == [b EXCEPT !.call_frame = Append(@, frame)]
pop_frame(b) == [b EXCEPT !.call_frame = SubSeq(@, 1, Len(@) - 1)]

new_block(b) ==
    LET pushed == [b EXCEPT !.basic_blocks = Append(@, BasicBlockData(<<>>, None))] IN
    HOk(pushed, Len(pushed.basic_blocks) - 1)

\* new_local returning the length instead of the index of the pushed decl
new_local_len(b, ty, local_info) ==
    LET pushed == [b EXCEPT !.local_decls = Append(@, LocalDecl(ty, local_info))] IN
    HOk(pushed, Local(Len(pushed.local_decls)))

new_local(b, ty, local_info) ==
    LET pushed == [b EXCEPT !.local_decls = Append(@, LocalDecl(ty, local_info))] IN
    HOk(pushed, Local(Len(pushed.local_decls) - 1))

\* the constant is typed I32 whatever the target type
build_number(b, value, target_type) ==
    HOk([b EXCEPT !.consts = Append(@, Const("I32", value))],
        Use(Constant(Const("I32", value))))

\* build_unary: UnaryOpKind to UnOp
build_unary_op ==
    [k \in {"Negate", "Not"} |-> IF k = "Negate" THEN "Neg" ELSE "Not"]

\* build_binary: BinOpKind to BinOp
build_binary_op ==
    [k \in {"Plus", "Minus", "Multiply", "Divide", "Modulo", "ShiftLeft",
            "ShiftRight", "BitAnd", "BitOr", "BitXor", "Eq", "Ne", "Lt", "Gt",
            "Le", "Ge"} |->
        CASE k = "Plus" -> "Add"      [] k = "Minus" -> "Sub"
          [] k = "Multiply" -> "Mul"  [] k = "Divide" -> "Div"
          [] k = "Modulo" -> "Rem"    [] OTHER -> k]

RECURSIVE build_blocks_loop(_, _, _, _, _)
RECURSIVE build_expr(_, _, _, _, _)

\* build_return setting Return on the entry block instead of the block
\* build_expr returned
build_return_terminate_entry(r) ==
    IF r.st # "Ok" THEN r
    ELSE HOk(set_terminator(pop_frame(r.b), 0, Return), r.val)

\* build_return after build_expr: pop the frame, terminate target_bb
build_return_terminate(r) ==
    IF r.st # "Ok" THEN r
    ELSE HOk(set_terminator(pop_frame(r.b), r.val, Return), r.val)

build_return(b, node, target_block) ==
    build_return_terminate(
        build_expr(push_frame(b, "Return"), node, target_block, Local(0),
                   Some(b.local_decls[1].ty)))

\* build_blocks: `bb = self.build_return(expr, target_block)`, next statement
build_blocks_next(r, stmts, j, target_block) ==
    IF r.st # "Ok" THEN r
    ELSE build_blocks_loop(r.b, stmts, j + 1, target_block, r.val)

\* build_blocks: `for stmt in block.stmts`, at statement j, with bb so far
build_blocks_loop(b, stmts, j, target_block, bb) ==
    IF j > Len(stmts) THEN HOk(b, bb)
    ELSE IF stmts[j].kind = "Expr"
    THEN build_blocks_next(build_return(b, stmts[j].expr, target_block),
                           stmts, j, target_block)
    ELSE HPanic(b, "not implemented")

build_blocks(b, block, target_block) ==
    build_blocks_loop(b, block.stmts, 1, target_block, target_block)

\* build_if after the condition: the SwitchInt of target_block; returns end_bb
build_if_switch(r, target_block, cond_place, then_bb, dest_bb, end_bb) ==
    IF r.st # "Ok" THEN r
    ELSE HOk(set_terminator(r.b, target_block,
                            SwitchInt(Copy(cond_place), <<0, 1>>, <<then_bb, dest_bb>>)),
             end_bb)

\* build_if, the condition: a new I1 temporary, build_expr into target_block
build_if_cond(b, cond, target_block, cond_place, then_bb, dest_bb, end_bb) ==
    build_if_switch(build_expr(cond_place.b, cond, target_block, cond_place.val, Some("I1")),
                    target_block, cond_place.val, then_bb, dest_bb, end_bb)

\* build_if after the else arm: else_bb goes to end_bb, dest_bb = else_bb
build_if_else_goto(r, cond, target_block, then_bb, else_bb, end_bb) ==
    IF r.st # "Ok" THEN r
    ELSE build_if_cond(set_terminator(r.b, else_bb, Goto(end_bb)), cond, target_block,
                       new_local(set_terminator(r.b, else_bb, Goto(end_bb)), "I1", Temp),
                       then_bb, else_bb, end_bb)

\* build_if, the else arm, b being the Builder after the then arm
build_if_else(b, cond, else_block, target_block, target_place, target_type, then_bb, else_bb, end_bb) ==
    IF else_block = None
    THEN build_if_cond(b, cond, target_block, new_local(b, "I1", Temp),
                       then_bb, end_bb, end_bb)
    ELSE build_if_else_goto(
             build_expr(b, else_block.val, else_bb, target_place, target_type),
             cond, target_block, then_bb, else_bb, end_bb)

\* build_if forgetting the Goto of the then block
build_if_then_falls(r, cond, else_block, target_block, target_place, target_type, then_bb, else_bb, end_bb) ==
    IF r.st # "Ok" THEN r
    ELSE build_if_else(r.b, cond, else_block, target_block, target_place, target_type,
                       then_bb, else_bb, end_bb)

\* build_if after build_blocks(then_block): then_bb goes to end_bb
build_if_then_goto(r, cond, else_block, target_block, target_place, target_type, then_bb, else_bb, end_bb) ==
    IF r.st # "Ok" THEN r
    ELSE build_if_else(set_terminator(r.b, then_bb, Goto(end_bb)), cond, else_block,
                       target_block, target_place, target_type, then_bb, else_bb, end_bb)

\* build_if once then_bb, else_bb and end_bb exist (end_bb holds the Builder)
build_if_then(cond, then_block, else_block, target_block, target_place, target_type, then_bb, else_bb, end_bb) ==
    build_if_then_goto(build_blocks(end_bb.b, then_block, then_bb),
                       cond, else_block, target_block, target_place, target_type,
                       then_bb, else_bb, end_bb.val)

\* build_if after then_bb: else_bb is a new block, or the dummy BasicBlock(0)
build_if_blocks(then_bb, cond, then_block, else_block, target_block, target_place, target_type) ==
    IF else_block # None
    THEN build_if_then(cond, then_block, else_block, target_block, target_place,
                       target_type, then_bb.val, new_block(then_bb.b).val,
                       new_block(new_block(then_bb.b).b))
    ELSE build_if_then(cond, then_block, else_block, target_block, target_place,
                       target_type, then_bb.val, 0, new_block(then_bb.b))

build_if(b, cond, then_block, else_block, target_block, target_place, target_type) ==
    build_if_blocks(new_block(b), cond, then_block, else_block, target_block,
                    target_place, target_type)

\* build_unary after the operand: pop the frame, the UnaryOp rvalue
build_unary_rvalue(r, unop, target_place) ==
    IF r.st # "Ok" THEN r
    ELSE HOk(pop_frame(r.b), UnaryOp(unop, Copy(target_place)))

build_unary(b, unop, expr, target_block, target_place, target_type) ==
    IF unop \notin DOMAIN build_unary_op THEN HPanic(b, "not implemented")
    ELSE build_unary_rvalue(
             build_expr(push_frame(b, "Unary"), expr, target_block, target_place,
                        target_type),
             build_unary_op[unop], target_place)

\* build_binary after both operands: pop the frame, the BinaryOp rvalue
build_binary_rvalue(r, bin_op, lplace, rplace) ==
    IF r.st # "Ok" THEN r
    ELSE IF bin_op \notin DOMAIN build_binary_op
    THEN HPanic(pop_frame(r.b), "not implemented")
    ELSE HOk(pop_frame(r.b),
             BinaryOp(build_binary_op[bin_op], Copy(lplace), Copy(rplace)))

\* build_binary after the left operand: the right operand into rplace
build_binary_right(r, bin_op, right, target_block, target_type, lplace, rplace) ==
    IF r.st # "Ok" THEN r
    ELSE build_binary_rvalue(
             build_expr(r.b, right, target_block, rplace, target_type),
             bin_op, lplace, rplace)

\* build_binary once lplace and rplace exist (rplace holds the Builder)
build_binary_left(lplace, rplace, left, bin_op, right, target_block, target_type) ==
    build_binary_right(
        build_expr(push_frame(rplace.b, "Binary"), left, target_block, lplace.val,
                   target_type),
        bin_op, right, target_block, target_type, lplace.val, rplace.val)

build_binary(b, left, bin_op, right, target_block, target_type) ==
    IF target_type = None
    THEN HPanic(b, "called Option::unwrap() on a None value")
    ELSE build_binary_left(
             new_local(b, target_type.val, Temp),
             new_local(new_local(b, target_type.val, Temp).b, target_type.val, Temp),
             left, bin_op, right, target_block, target_type)

\* build_expr with Some(rvalue): push the Assign into target_block
build_expr_assign(r, target_block, target_place) ==
    IF r.st # "Ok" THEN r
    ELSE HOk(push_statement(r.b, target_block, Assign(target_place, r.val)),
             target_block)

build_expr(b, expr, target_block, target_place, target_type) ==
    CASE expr.kind = "Path" -> HPanic(b, "not implemented")
      [] expr.kind = "Literal" ->
            build_expr_assign(build_number(b, expr.value, target_type),
                              target_block, target_place)
      [] expr.kind = "If" ->
            build_if(b, expr.cond, expr.then, expr.else, target_block, target_place,
                     target_type)
      [] expr.kind = "Binary" ->
            build_expr_assign(
                build_binary(b, expr.left, expr.op, expr.right, target_block,
                             target_type),
                target_block, target_place)
      [] expr.kind = "Unary" ->
            build_expr_assign(
                build_unary(b, expr.op, expr.expr, target_block, target_place,
                            target_type),
                target_block, target_place)
      [] expr.kind = "Block" -> build_blocks(b, expr.block, target_block)

\* build_fn after build_blocks: the Body, named by node.identifier.unwrap()
build_fn_body(r, node) ==
    IF r.st # "Ok" THEN [st |-> "Panic", val |-> None, msg |-> r.msg]
    ELSE IF node.identifier = None
    THEN [st |-> "Panic", val |-> None,
          msg |-> "called Option::unwrap() on a None value"]
    ELSE [st |-> "Ok",
          val |-> Body(node.identifier.val, r.b.basic_blocks, r.b.local_decls,
                       r.b.consts, Len(node.sig.inputs)),
          msg |-> ""]

\* build_fn: retval and the parameters become locals, then the entry block
build_fn_enter(b, node) ==
    [b EXCEPT
        !.local_decls =
            <<LocalDecl(node.sig.return_type, User("retval"))>>
              \o [j \in 1..Len(node.sig.inputs) |->
                     LocalDecl(node.sig.inputs[j].ty, User(node.sig.inputs[j].id))],
        !.basic_blocks = Append(@, BasicBlockData(<<>>, None))]

build_fn(b, node) ==
    IF node.kind # "Fn"
    THEN [st |-> "Err", val |-> None, msg |-> "Expected a function definition"]
    ELSE IF node.body = None
    THEN [st |-> "Err", val |-> None, msg |-> "Function body is missing"]
    ELSE build_fn_body(build_blocks(build_fn_enter(b, node), node.body.val, 0), node)

hir_build(node) == build_fn(Builder_new, node)

(***************************************************************************)
(* hir::graph: the control-flow graph that visualize prints.  An edge is   *)
(* (source, target, weight), the weight the text on the edge.              *)
(***************************************************************************)
Edge(source, target, weight) == [source |-> source, target |-> target, weight |-> weight]

\* the edges of the SwitchInt of block i: one per value, the k-th value with
\* the k-th block, the weight format!("{}", v)
graphify_switch(i, targets) ==
    [k \in 1..Len(targets.values) |->
        Edge(i, targets.blocks[k], ToString(targets.values[k]))]

RECURSIVE graphify_blocks(_, _, _)
\* graphify, the loop that connects the blocks from block i on; r holds the
\* edges added so far
graphify_blocks(b, i, r) ==
    IF r.st # "Ok" \/ i + 1 > Len(b.basic_blocks) THEN r
    ELSE IF b.basic_blocks[i + 1].terminator = None THEN graphify_blocks(b, i + 1, r)
    ELSE CASE b.basic_blocks[i + 1].terminator.val.kind = "Goto" ->
                IF b.basic_blocks[i + 1].terminator.val.target + 1 > Len(b.basic_blocks)
                THEN [r EXCEPT !.st = "Panic",
                               !.msg = "called Option::unwrap() on a None value"]
                ELSE graphify_blocks(b, i + 1,
                        [r EXCEPT !.edges = Append(@,
                            Edge(i, b.basic_blocks[i + 1].terminator.val.target, ""))])
           [] b.basic_blocks[i + 1].terminator.val.kind = "SwitchInt" ->
                IF \/ Len(b.basic_blocks[i + 1].terminator.val.targets.values)
                        > Len(b.basic_blocks[i + 1].terminator.val.targets.blocks)
                   \/ \E k \in DOMAIN b.basic_blocks[i + 1].terminator.val.targets.blocks :
                         b.basic_blocks[i + 1].terminator.val.targets.blocks[k] + 1
                            > Len(b.basic_blocks)
                THEN [r EXCEPT !.st = "Panic",
                               !.msg = "called Option::unwrap() on a None value"]
                ELSE graphify_blocks(b, i + 1,
                        [r EXCEPT !.edges = @ \o
                            graphify_switch(i, b.basic_blocks[i + 1].terminator.val.targets)])
           [] b.basic_blocks[i + 1].terminator.val.kind = "Return" ->
                graphify_blocks(b, i + 1, r)
           [] OTHER -> [r EXCEPT !.st = "Panic", !.msg = "not implemented"]

graphify(b) == graphify_blocks(b, 0, [st |-> "Ok", edges |-> <<>>, msg |-> ""])

(***************************************************************************)
(* ast::types: the primitive types, their byte size and their spelling.    *)
(***************************************************************************)
PrimitiveTypes ==
    {"Void", "I1", "I8", "I16", "I32", "I64", "U8", "U16", "U32", "U64", "F32", "F64"}

\* Type::size
size ==
    [ty \in PrimitiveTypes |->
        CASE ty = "Void" -> 0
          [] ty \in {"I1", "I8", "U8"} -> 1
          [] ty \in {"I16", "U16"} -> 2
          [] ty \in {"I32", "U32", "F32"} -> 4
          [] ty \in {"I64", "U64", "F64"} -> 8]

\* Display for PrimitiveType / Type
to_string ==
    [ty \in PrimitiveTypes |->
        CASE ty = "Void" -> "void" [] ty = "I1" -> "i1"   [] ty = "I8" -> "i8"
          [] ty = "I16" -> "i16"   [] ty = "I32" -> "i32" [] ty = "I64" -> "i64"
          [] ty = "U8" -> "u8"     [] ty = "U16" -> "u16" [] ty = "U32" -> "u32"
          [] ty = "U64" -> "u64"   [] ty = "F32" -> "f32" [] ty = "F64" -> "f64"]

(***************************************************************************)
(* The LIR text, one record per line the code generator appends to         *)
(* self.code.  Registers, labels and literals are the strings format!      *)
(* builds; a line that defines a register carries it in the field dst.     *)
(***************************************************************************)
\* define <ty> @<name>() {
DefineLine(ty, name) == [op |-> "define", ty |-> ty, name |-> name]
\* }
CloseLine == [op |-> "}"]
\* <label>:
LabelLine(label) == [op |-> "label", label |-> label]
\* <dst> = alloca <ty>, align <align>
AllocaLine(dst, ty, align) == [op |-> "alloca", dst |-> dst, ty |-> ty, align |-> align]
\* br label %<label>
BrLine(label) == [op |-> "br", label |-> label]
\* br <ty> <reg>, label %<label_true>, label %<label_false>
BrCondLine(ty, reg, label_true, label_false) ==
    [op |-> "br_cond", ty |-> ty, reg |-> reg,
     label_true |-> label_true, label_false |-> label_false]
\* <dst> = load <ty>, <ty>* <ptr>
LoadLine(dst, ty, ptr) == [op |-> "load", dst |-> dst, ty |-> ty, ptr |-> ptr]
\* store <ty> <val>, <ty>* <ptr>       (star: the `*` is present)
StoreLine(ty, val, ptr, star) ==
    [op |-> "store", ty |-> ty, val |-> val, ptr |-> ptr, star |-> star]
\* <dst> = <op> <ty> <lhs>, <rhs>
BinLine(dst, op_str, ty, lhs, rhs) ==
    [op |-> op_str, dst |-> dst, ty |-> ty, lhs |-> lhs, rhs |-> rhs]
\* ret <ty> <reg>
RetLine(ty, reg) == [op |-> "ret", ty |-> ty, reg |-> reg]

\* format!("bb{}", block.0)
bb_label(block) == "bb" \o ToString(block)

(***************************************************************************)
(* codegen::Codegen.  g is the struct (code, body, reg_id, place_map) with *)
(* st = "Panic" once a panic has unwound; every step leaves a panicked     *)
(* Codegen as it is.                                                       *)
(***************************************************************************)
Codegen_new(b) ==
    [code |-> <<>>, body |-> b, reg_id |-> 0, place_map |-> [p \in {} |-> ""],
     st |-> "Ok", msg |-> ""]

\* a Codegen with the value a method returned
CgVal(g, v) == [g |-> g, val |-> v]

\* self.code += line
emit(g, line) == IF g.st # "Ok" THEN g ELSE [g EXCEPT !.code = Append(@, line)]
\* self.place_map.insert(place, reg)
place_map_insert(g, place, reg) ==
    IF g.st # "Ok" THEN g ELSE [g EXCEPT !.place_map = (place :> reg) @@ @]
\* panic!, unwrap on None, index out of the map
cg_panic(g, m) == IF g.st # "Ok" THEN g ELSE [g EXCEPT !.st = "Panic", !.msg = m]

return_decl(g) == g.body.local_decls[1]

\* get_unique_reg without the increment of reg_id
get_unique_reg_same(g) == CgVal(g, "%" \o ToString(g.reg_id))

get_unique_reg(g) ==
    IF g.st # "Ok" THEN CgVal(g, "")
    ELSE CgVal([g EXCEPT !.reg_id = @ + 1], "%" \o ToString(g.reg_id))

get_unary_type(g, operand) ==
    IF operand.kind = "Copy" THEN g.body.local_decls[operand.place.local + 1].ty
    ELSE operand.const.ty

\* the type of the larger size; the second operand's when the sizes are equal
get_binary_type(g, operand1, operand2) ==
    IF size[get_unary_type(g, operand1)] > size[get_unary_type(g, operand2)]
    THEN get_unary_type(g, operand1)
    ELSE get_unary_type(g, operand2)

\* Body::get_operand_type
get_operand_type(b, operand) ==
    IF operand.kind = "Copy" THEN b.local_decls[operand.place.local + 1].ty
    ELSE operand.const.ty

\* Some(register) of a Copy operand whose place is mapped; None where the
\* code panics (place not in place_map, operand not a Copy)
get_operand_reg(g, operand) ==
    IF operand.kind = "Copy" /\ operand.place \in DOMAIN g.place_map
    THEN Some(g.place_map[operand.place])
    ELSE None

load(g, reg, ty, place) ==
    IF g.st # "Ok" THEN g
    ELSE IF place \notin DOMAIN g.place_map
    THEN cg_panic(g, "place_map[place]: key not found")
    ELSE emit(g, LoadLine(reg, ty, g.place_map[place]))

\* store addressing the return slot whatever the place
store_return_slot(g, reg, ty, place) ==
    IF g.st # "Ok" THEN g
    ELSE emit(g, StoreLine(ty, reg, "%" \o return_decl(g).local_info.name, TRUE))

store(g, reg, ty, place) ==
    IF g.st # "Ok" THEN g
    ELSE IF g.body.local_decls[place.local + 1].local_info.kind = "User"
    THEN emit(g, StoreLine(ty, reg,
                           "%" \o g.body.local_decls[place.local + 1].local_info.name,
                           TRUE))
    ELSE IF place \notin DOMAIN g.place_map
    THEN cg_panic(g, "place_map[place]: key not found")
    ELSE emit(g, StoreLine(ty, reg, g.place_map[place], FALSE))

\* build_use emitting no instruction for a constant assigned to a temporary
build_use_unemitted(g, operand, reg, ty, ptr) ==
    IF operand.kind = "Constant"
    THEN IF ptr
         THEN emit(g, StoreLine(ty, operand.const.value, reg, TRUE))
         ELSE g
    ELSE IF operand.kind = "Copy" THEN load(g, reg, ty, operand.place)
    ELSE g

build_use(g, operand, reg, ty, ptr) ==
    IF operand.kind = "Constant"
    THEN IF ptr
         THEN emit(g, StoreLine(ty, operand.const.value, reg, TRUE))
         ELSE emit(g, BinLine(reg, "add", ty, operand.const.value, "0"))
    ELSE IF operand.kind = "Copy" THEN load(g, reg, ty, operand.place)
    ELSE g

\* build_binary: BinOp to the LIR mnemonic
codegen_build_binary_op_str ==
    [op \in {"Add", "Sub", "Mul", "Div", "Rem", "ShiftLeft", "ShiftRight", "BitAnd",
             "BitOr", "BitXor", "Eq", "Ne", "Lt", "Gt", "Le", "Ge"} |->
        CASE op = "Add" -> "add"        [] op = "Sub" -> "sub"
          [] op = "Mul" -> "mul"        [] op = "Div" -> "sdiv"
          [] op = "Rem" -> "srem"       [] op = "ShiftLeft" -> "shl"
          [] op = "ShiftRight" -> "lshr" [] op = "BitAnd" -> "and"
          [] op = "BitOr" -> "or"       [] op = "BitXor" -> "xor"
          [] op = "Eq" -> "icmp eq"     [] op = "Ne" -> "icmp ne"
          [] op = "Lt" -> "icmp slt"    [] op = "Gt" -> "icmp sgt"
          [] op = "Le" -> "icmp sle"    [] op = "Ge" -> "icmp sge"]

\* Codegen::build_binary printing the operands in the opposite order
codegen_build_binary_swapped(g, op, operand1, operand2, reg) ==
    IF g.st # "Ok" THEN g
    ELSE IF get_operand_reg(g, operand1) = None \/ get_operand_reg(g, operand2) = None
    THEN cg_panic(g, "get_operand_reg")
    ELSE emit(g, BinLine(reg, codegen_build_binary_op_str[op],
                         to_string[get_binary_type(g, operand1, operand2)],
                         get_operand_reg(g, operand2).val,
                         get_operand_reg(g, operand1).val))

\* Codegen::build_binary
codegen_build_binary(g, op, operand1, operand2, reg) ==
    IF g.st # "Ok" THEN g
    ELSE IF get_operand_reg(g, operand1) = None \/ get_operand_reg(g, operand2) = None
    THEN cg_panic(g, "get_operand_reg")
    ELSE emit(g, BinLine(reg, codegen_build_binary_op_str[op],
                         to_string[get_binary_type(g, operand1, operand2)],
                         get_operand_reg(g, operand1).val,
                         get_operand_reg(g, operand2).val))

\* Codegen::build_unary
codegen_build_unary(g, op, operand, reg, ty) ==
    IF g.st # "Ok" THEN g
    ELSE IF get_operand_reg(g, operand) = None THEN cg_panic(g, "get_operand_reg")
    ELSE IF op = "Neg"
    THEN emit(place_map_insert(g, Local(g.reg_id), reg),
              BinLine(reg, "sub", ty, "0", get_operand_reg(g, operand).val))
    ELSE emit(place_map_insert(g, Local(g.reg_id), reg),
              BinLine(reg, "xor", ty, get_operand_reg(g, operand).val, "-1"))

\* build_assign, its last step: the place now maps to reg, which is returned
build_assign_done(g, place, reg) == CgVal(place_map_insert(g, place, reg), reg)

\* build_assign, UnaryOp into a user local, after the load: reg2, the
\* operation and the store of reg2
build_assign_unary_store(g, op, operand, ty, place) ==
    store(codegen_build_unary(get_unique_reg(g).g, op, operand,
                              get_unique_reg(g).val, ty),
          get_unique_reg(g).val, ty, place)

\* build_assign, UnaryOp into a user local: load into reg1, remap the place
build_assign_unary_ptr(g, op, operand, ty, place) ==
    build_assign_unary_store(
        place_map_insert(load(get_unique_reg(g).g, get_unique_reg(g).val, ty, place),
                         place, get_unique_reg(g).val),
        op, operand, ty, place)

\* build_assign, the match on the rvalue
build_assign_rvalue(g, place, rvalue, reg, ty, ptr) ==
    CASE rvalue.kind = "Use" -> build_use(g, rvalue.operand, reg, ty, ptr)
      [] rvalue.kind = "BinaryOp" ->
            IF ptr
            THEN store(codegen_build_binary(get_unique_reg(g).g, rvalue.op, rvalue.left,
                                            rvalue.right, get_unique_reg(g).val),
                       get_unique_reg(g).val, ty, place)
            ELSE codegen_build_binary(g, rvalue.op, rvalue.left, rvalue.right, reg)
      [] rvalue.kind = "UnaryOp" ->
            IF ptr
            THEN build_assign_unary_ptr(g, rvalue.op, rvalue.operand, ty, place)
            ELSE codegen_build_unary(g, rvalue.op, rvalue.operand, reg, ty)

build_assign(g, place, rvalue) ==
    IF g.body.local_decls[place.local + 1].local_info.kind = "User"
    THEN build_assign_done(
            build_assign_rvalue(g, place, rvalue,
                "%" \o g.body.local_decls[place.local + 1].local_info.name,
                to_string[g.body.local_decls[place.local + 1].ty], TRUE),
            place, "%" \o g.body.local_decls[place.local + 1].local_info.name)
    ELSE build_assign_done(
            build_assign_rvalue(get_unique_reg(g).g, place, rvalue,
                get_unique_reg(g).val,
                to_string[g.body.local_decls[place.local + 1].ty], FALSE),
            place, get_unique_reg(g).val)

RECURSIVE build_basic_block_statements(_, _, _)
\* build_basic_block, the loop over the statements from the k-th on
build_basic_block_statements(g, statements, k) ==
    IF g.st # "Ok" \/ k > Len(statements) THEN g
    ELSE build_basic_block_statements(
            build_assign(g, statements[k].place, statements[k].rvalue).g,
            statements, k + 1)

\* build_basic_block, Terminator::Return after get_unique_reg
build_basic_block_return(g, return_reg) ==
    IF g.st # "Ok" THEN g
    ELSE IF Local(0) \notin DOMAIN g.place_map
    THEN cg_panic(g, "called Option::unwrap() on a None value")
    ELSE emit(emit(g, LoadLine(return_reg, to_string[return_decl(g).ty],
                               g.place_map[Local(0)])),
              RetLine(to_string[return_decl(g).ty], return_reg))

\* build_basic_block, the match on the terminator
build_basic_block_terminator(g, terminator) ==
    IF g.st # "Ok" \/ terminator = None THEN g
    ELSE CASE terminator.val.kind = "Return" ->
                build_basic_block_return(get_unique_reg(g).g, get_unique_reg(g).val)
           [] terminator.val.kind = "SwitchInt" ->
                IF get_operand_reg(g, terminator.val.value) = None
                THEN cg_panic(g, "get_operand_reg")
                ELSE emit(g, BrCondLine(
                        to_string[get_operand_type(g.body, terminator.val.value)],
                        get_operand_reg(g, terminator.val.value).val,
                        bb_label(terminator.val.targets.blocks[1]),
                        bb_label(terminator.val.targets.blocks[2])))
           [] terminator.val.kind = "Goto" ->
                emit(g, BrLine(bb_label(terminator.val.target)))
           [] OTHER -> g

build_basic_block(g, block) ==
    IF g.st # "Ok" THEN g
    ELSE IF block + 1 > Len(g.body.basic_blocks)
    THEN cg_panic(g, "index out of bounds")
    ELSE build_basic_block_terminator(
            build_basic_block_statements(g, g.body.basic_blocks[block + 1].statements, 1),
            g.body.basic_blocks[block + 1].terminator)

RECURSIVE build_fn_code_locals(_, _)
\* build_fn_code, the loop over local_decls from index i on: an alloca and
\* a place_map entry for every user local
build_fn_code_locals(g, i) ==
    IF i + 1 > Len(g.body.local_decls) THEN g
    ELSE IF g.body.local_decls[i + 1].local_info.kind = "User"
    THEN build_fn_code_locals(
            place_map_insert(
                emit(g, AllocaLine("%" \o g.body.local_decls[i + 1].local_info.name,
                                   to_string[g.body.local_decls[i + 1].ty],
                                   size[g.body.local_decls[i + 1].ty])),
                Local(i), "%" \o g.body.local_decls[i + 1].local_info.name),
            i + 1)
    ELSE build_fn_code_locals(g, i + 1)

RECURSIVE build_fn_code_loop(_, _, _)
\* build_fn_code pushing the successors to the front of the queue
build_fn_code_successors_front(g, q, visited) ==
    IF g.st # "Ok" THEN g
    ELSE IF g.body.basic_blocks[Head(q) + 1].terminator = None
    THEN cg_panic(g, "called Option::unwrap() on a None value")
    ELSE build_fn_code_loop(g,
            successors(g.body.basic_blocks[Head(q) + 1].terminator.val) \o Tail(q),
            visited \cup {Head(q)})

\* build_fn_code, after build_basic_block of the block at the head of the
\* queue: its terminator's successors join the queue
build_fn_code_successors(g, q, visited) ==
    IF g.st # "Ok" THEN g
    ELSE IF g.body.basic_blocks[Head(q) + 1].terminator = None
    THEN cg_panic(g, "called Option::unwrap() on a None value")
    ELSE build_fn_code_loop(g,
            Tail(q) \o successors(g.body.basic_blocks[Head(q) + 1].terminator.val),
            visited \cup {Head(q)})

\* build_fn_code leaving the loop at the first block that was visited before
build_fn_code_loop_leaves(g, q, visited) ==
    IF g.st # "Ok" \/ q = <<>> THEN g
    ELSE IF Head(q) \in visited THEN g
    ELSE build_fn_code_successors(
            build_basic_block(emit(g, LabelLine(bb_label(Head(q)))), Head(q)),
            q, visited)

\* build_fn_code, while let Some(block) = q.pop_front()
build_fn_code_loop(g, q, visited) ==
    IF g.st # "Ok" \/ q = <<>> THEN g
    ELSE IF Head(q) \in visited THEN build_fn_code_loop(g, Tail(q), visited)
    ELSE build_fn_code_successors(
            build_basic_block(emit(g, LabelLine(bb_label(Head(q)))), Head(q)),
            q, visited)

build_fn_code(g) ==
    build_fn_code_loop(
        emit(build_fn_code_locals(emit(g, LabelLine("start")), 0), BrLine("bb0")),
        <<0>>, {})

\* build_fn's Result: Ok(code), or the panic that unwound out of it
codegen_build_fn_result(g) ==
    IF g.st = "Ok" THEN [st |-> "Ok", val |-> g.code, msg |-> ""]
    ELSE [st |-> "Panic", val |-> None, msg |-> g.msg]

\* Codegen::build_fn
codegen_build_fn(g) ==
    codegen_build_fn_result(
        emit(build_fn_code(emit(g, DefineLine(to_string[return_decl(g).ty], g.body.name))),
             CloseLine))

build_lir(g) == codegen_build_fn(g)

lir_build(b) == build_lir(Codegen_new(b))

(***************************************************************************)
(* Token sequences handed to the parser.  The lexer is a collaborator; a   *)
(* source text reaches the parser as any finite sequence of tokens.        *)
(***************************************************************************)
Digits == <<"0", "1", "2", "3", "4", "5", "6", "7">>
Names == <<"a", "b", "c", "d", "e", "g", "h", "k">>
\* the n-th operand of a generated expression: numbers and paths alternate
Atom(n) == IF n % 2 = 0 THEN Number(Digits[n + 1]) ELSE Identifier(Names[n + 1])

FnHeader(ty) ==
    <<Tok("Fn"), Identifier("f"), Tok("OpenParen"), Tok("CloseParen"),
      Tok("RightArrow"), Identifier(ty), Tok("OpenBrace")>>
\* fn f() -> i32 { body }
Wrap(body) == FnHeader("i32") \o body \o <<Tok("CloseBrace")>>

ComparisonTokens == {"Lt", "Gt", "LtEq", "GtEq", "EqEq", "NotEq"}
\* the left-associative levels, lowest first
LeftLevels ==
    <<{"Or"}, {"Caret"}, {"And"}, {"ShiftLeft", "ShiftRight"},
      {"Plus", "Minus"}, {"Star", "Slash", "Percent"}>>
BinOpTokens == ComparisonTokens \cup UNION {LeftLevels[l] : l \in DOMAIN LeftLevels}

\* x0 op1 x1 ... opn xn
Chain(ops) ==
    [j \in 1..(2 * Len(ops) + 1) |->
        IF j % 2 = 1 THEN Atom((j - 1) \div 2) ELSE Tok(ops[j \div 2])]

\* a op1 b op2 c for every pair of binary operators
PrecInputs == {Wrap(Chain(<<o1, o2>>)) : o1 \in BinOpTokens, o2 \in BinOpTokens}

\* chains of up to MaxChain operators of one left-associative level
ChainInputs ==
    UNION {UNION {{Wrap(Chain(ops)) : ops \in [1..n -> LeftLevels[l]]}
                  : n \in 1..MaxChain}
           : l \in DOMAIN LeftLevels}

Conds == {<<Number("1")>>, <<Identifier("a"), Tok("EqEq"), Number("1")>>}
Braced(body) == <<Tok("OpenBrace")>> \o body \o <<Tok("CloseBrace")>>
Arms == {<<>>, <<Number("2")>>, <<Number("2"), Tok("Semicolon")>>}
\* if c { t }
IfNoElse(c, t) == <<Tok("If")>> \o c \o Braced(t)
\* if c { t } else { e }
IfElse(c, t, e) == IfNoElse(c, t) \o <<Tok("Else")>> \o Braced(e)
\* if c { t } else if c { e }      (the last if has no else arm)
IfElseIf(c, t, e) == IfNoElse(c, t) \o <<Tok("Else")>> \o IfNoElse(c, e)
\* if c { t } else if c { e } else { t }
IfElseIfElse(c, t, e) == IfNoElse(c, t) \o <<Tok("Else")>> \o IfElse(c, e, t)

IfNoElseBodies == {IfNoElse(c, t) : c \in Conds, t \in Arms}
                    \cup {IfElseIf(c, t, e) : c \in Conds, t \in Arms, e \in Arms}
IfElseBodies == {IfElse(c, t, e) : c \in Conds, t \in Arms, e \in Arms}
                    \cup {IfElseIfElse(c, t, e) : c \in Conds, t \in Arms, e \in Arms}
\* `else` followed by neither `if` nor a block
IfBadElseBodies == {IfNoElse(c, t) \o <<Tok("Else"), Number("3")>> : c \in Conds, t \in Arms}
IfInputs == {Wrap(b) : b \in IfNoElseBodies \cup IfElseBodies \cup IfBadElseBodies}

\* the closed set of type names of the language, and other identifiers
TypeNames == {"i8", "i16", "i32", "i64", "u8", "u16", "u32", "u64", "f32", "f64", "void"}
OtherNames == {"i1", "bool", "int", "I32"}
TypeInputs ==
    {FnHeader(ty) \o <<Number("0"), Tok("CloseBrace")>> : ty \in TypeNames \cup OtherNames}

\* statements as they are written
SemiStmts ==
    {<<Number("1"), Tok("Semicolon")>>,
     <<Tok("Let"), Identifier("x"), Tok("Eq"), Number("1"), Tok("Semicolon")>>,
     <<Tok("Let"), Identifier("x"), Tok("Colon"), Identifier("i32"), Tok("Eq"),
       Tok("Minus"), Number("1"), Tok("Semicolon")>>}
TailStmts ==
    {<<Number("1")>>,
     <<Tok("Bang"), Identifier("a")>>,
     <<Tok("OpenParen"), Number("1"), Tok("Plus"), Number("2"), Tok("CloseParen")>>,
     Braced(<<Number("1")>>),
     IfElse(<<Number("1")>>, <<Number("2")>>, <<Number("3")>>)}

RECURSIVE Flatten(_)
Flatten(ss) == IF ss = <<>> THEN <<>> ELSE Head(ss) \o Flatten(Tail(ss))

\* blocks of up to MaxStmts statements, written in any order
StmtInputs ==
    UNION {{Wrap(Flatten(ss)) : ss \in [1..n -> SemiStmts \cup TailStmts]}
           : n \in 0..MaxStmts}

Attributes ==
    {<<>>, <<Tok("Pub")>>,
     <<Tok("Hash"), Tok("OpenBracket"), Identifier("no_mangle"), Tok("CloseBracket")>>,
     <<Tok("Hash"), Tok("OpenBracket"), Identifier("no_mangle"), Tok("CloseBracket"),
       Tok("Pub")>>,
     <<Tok("Hash"), Tok("OpenBracket"), Number("1"), Tok("CloseBracket")>>}
\* fn f() { 0 } with attributes and visibility, and without a return type
ItemInputs ==
    {a \o <<Tok("Fn"), Identifier("f"), Tok("OpenParen"), Tok("CloseParen")>>
       \o Braced(b) : a \in Attributes, b \in {<<>>, <<Number("0")>>}}

\* tokens after the function's closing brace
TrailingInputs ==
    {Wrap(<<Number("0")>>) \o t :
        t \in {<<Number("1")>>, <<Tok("CloseBrace")>>, <<Tok("Semicolon")>>,
               Wrap(<<Number("1")>>)}}

\* a source cut short: every proper prefix of two functions
Prefixes(toks) == {SubSeq(toks, 1, n) : n \in 0..(Len(toks) - 1)}
TruncatedInputs ==
    Prefixes(Wrap(<<Tok("OpenParen"), Number("1"), Tok("Plus"), Number("2"), Tok("CloseParen")>>))
      \cup Prefixes(Wrap(IfElse(<<Number("1")>>, <<Number("2")>>, <<Number("3")>>)))

Inputs ==
    PrecInputs \cup ChainInputs \cup IfInputs \cup TypeInputs \cup StmtInputs
      \cup ItemInputs \cup TrailingInputs \cup TruncatedInputs

(***************************************************************************)
(* Function nodes handed to hir_build: every body of at most MaxNodes      *)
(* expression nodes, blocks of at most MaxStmts statements.                *)
(***************************************************************************)
RECURSIVE ExprsOfSize(_)
RECURSIVE StmtSeqsOfSize(_, _)

\* the statements of n expression nodes; Semi and Let only in their smallest form
StmtsOfSize(n) ==
    {StmtExpr(e) : e \in ExprsOfSize(n)}
      \cup (IF n = 1
            THEN {StmtSemi(Literal("1")), StmtLet("x", None, Literal("1"))}
            ELSE {})

\* the sequences of at most k statements that have n expression nodes in all
StmtSeqsOfSize(n, k) ==
    IF n = 0 THEN {<<>>}
    ELSE IF k = 0 THEN {}
    ELSE UNION {{<<s>> \o rest : s \in StmtsOfSize(j),
                                 rest \in StmtSeqsOfSize(n - j, k - 1)}
                : j \in 1..n}

\* an else arm is an `if` or a block
ElseArmsOfSize(n) == {e \in ExprsOfSize(n) : e.kind \in {"If", "Block"}}

\* the expressions of exactly n nodes
ExprsOfSize(n) ==
    IF n = 1 THEN {Literal("1"), Path("a"), BlockExpr(Block(<<>>))}
    ELSE {Unary(op, e) : op \in {"Negate", "Not"}, e \in ExprsOfSize(n - 1)}
      \cup UNION {{Binary(l, op, r) : op \in {"Plus", "Lt"}, l \in ExprsOfSize(k),
                                      r \in ExprsOfSize(n - 1 - k)}
                  : k \in 1..(n - 2)}
      \cup {BlockExpr(Block(ss)) : ss \in StmtSeqsOfSize(n - 1, MaxStmts)}
      \cup UNION {{If(c, Block(t), None) : c \in ExprsOfSize(k),
                                           t \in StmtSeqsOfSize(n - 1 - k, MaxStmts)}
                  : k \in 1..(n - 1)}
      \cup UNION {UNION {{If(c, Block(t), Some(e)) :
                             c \in ExprsOfSize(k),
                             t \in StmtSeqsOfSize(m, MaxStmts),
                             e \in ElseArmsOfSize(n - 1 - k - m)}
                         : m \in 0..(n - 2 - k)}
                  : k \in 1..(n - 2)}

BodiesUpTo(n) == {Block(ss) : ss \in UNION {StmtSeqsOfSize(j, MaxStmts) : j \in 0..n}}

\* fn f() -> T { body }
FnOf(rty, body) == FnNode(<<>>, "Private", Some("f"), rty, Some(body))

\* fn f() -> i32 { if c { x } else { y } } with literal arms
TailIfElseNodes ==
    {FnOf("I32", Block(<<StmtExpr(
        If(c, Block(<<StmtExpr(Literal(x))>>),
           Some(BlockExpr(Block(<<StmtExpr(Literal(y))>>)))))>>))
       : c \in {Literal("1"), Unary("Not", Literal("1")),
                Binary(Literal("1"), "Eq", Literal("1")),
                Binary(Literal("1"), "Lt", Literal("2")),
                BlockExpr(Block(<<>>)), Path("a")},
         x \in {"10", "20"}, y \in {"10", "20"}}

RECURSIVE RightNested(_, _)
\* x(k) + (x(k+1) + ... (x(n) + -x(n+1))), the literals numbered from k
RightNested(k, n) ==
    IF k > n THEN Unary("Negate", Literal(ToString(k)))
    ELSE Binary(Literal(ToString(k)), "Plus", RightNested(k + 1, n))

\* fn f() -> i32 { 1 + -2 }, { 1 + (2 + -3) }, { 1 + (2 + (3 + -4)) }
RightNestedNodes == {FnOf("I32", Block(<<StmtExpr(RightNested(1, n))>>)) : n \in 1..3}

\* the expressions over the literals 1, 2, 3, in this order, and at most two
\* of the operators + and *: 1, 1 op 2, (1 op 2) op 3, 1 op (2 op 3)
ArithmeticExprs ==
    {Literal("1")}
      \cup {Binary(Literal("1"), op, Literal("2")) : op \in {"Plus", "Multiply"}}
      \cup {Binary(Binary(Literal("1"), op1, Literal("2")), op2, Literal("3")) :
                op1 \in {"Plus", "Multiply"}, op2 \in {"Plus", "Multiply"}}
      \cup {Binary(Literal("1"), op1, Binary(Literal("2"), op2, Literal("3"))) :
                op1 \in {"Plus", "Multiply"}, op2 \in {"Plus", "Multiply"}}

\* fn f() -> i32 { e } for an arithmetic expression e
ArithmeticNodes == {FnOf("I32", Block(<<StmtExpr(e)>>)) : e \in ArithmeticExprs}

NodeInputs ==
    {FnOf("I32", body) : body \in BodiesUpTo(MaxNodes)}
      \cup TailIfElseNodes
      \cup RightNestedNodes
      \cup ArithmeticNodes
      \cup {FnOf(rty, body) : rty \in {"Void", "I64", "I8"}, body \in BodiesUpTo(2)}
      \cup {FnNode(<<>>, "Private", Some("f"), "I32", None),
            FnNode(<<>>, "Public", None, "I32", Some(Block(<<StmtExpr(Literal("1"))>>))),
            FnOf("I32", Block(<<StmtExpr(Binary(Literal("1"), "And", Literal("2")))>>)),
            FnOf("I32", Block(<<StmtExpr(Unary("Dereference", Literal("1")))>>))}

RECURSIVE UnloweredInExpr(_)
RECURSIVE UnloweredInStmts(_)
\* the expression holds a Path, or a block with a Semi or Let statement
UnloweredInExpr(e) ==
    CASE e.kind = "Path" -> TRUE
      [] e.kind = "Literal" -> FALSE
      [] e.kind = "Block" -> UnloweredInStmts(e.block.stmts)
      [] e.kind = "If" ->
            \/ UnloweredInExpr(e.cond)
            \/ UnloweredInStmts(e.then.stmts)
            \/ (e.else # None /\ UnloweredInExpr(e.else.val))
      [] e.kind = "Binary" -> UnloweredInExpr(e.left) \/ UnloweredInExpr(e.right)
      [] e.kind = "Unary" -> UnloweredInExpr(e.expr)
UnloweredInStmts(stmts) ==
    \E j \in DOMAIN stmts :
        stmts[j].kind \in {"Semi", "Let"} \/ UnloweredInExpr(stmts[j].expr)

\* the nodes that reach lir_build in main, or stop in hir_build short of an
\* unimplemented!() arm: those without a Path, a Semi or a Let
LowerableNodeInputs ==
    {node \in NodeInputs :
        node.body = None \/ ~UnloweredInStmts(node.body.val.stmts)}

(***************************************************************************)
(* hir::Body values handed to lir_build directly: one block that assigns   *)
(* two temporaries of the types ty1 and ty2, combines them with Add into   *)
(* the return local and returns.                                           *)
(***************************************************************************)
BinaryBody(ty0, ty1, ty2) ==
    Body("f",
         <<BasicBlockData(
              <<Assign(Local(1), Use(Constant(Const(ty1, "1")))),
                Assign(Local(2), Use(Constant(Const(ty2, "2")))),
                Assign(Local(0), BinaryOp("Add", Copy(Local(1)), Copy(Local(2))))>>,
              Some(Return))>>,
         <<LocalDecl(ty0, User("retval")), LocalDecl(ty1, Temp), LocalDecl(ty2, Temp)>>,
         <<Const(ty1, "1"), Const(ty2, "2")>>,
         0)

\* statements on the user local x = Local(1) and the temporary Local(2):
\* x = 5, x = -x, _2 = x, x = _2 + _2
UserLocalStatements ==
    {Assign(Local(1), Use(Constant(Const("I32", "5")))),
     Assign(Local(1), UnaryOp("Neg", Copy(Local(1)))),
     Assign(Local(2), Use(Copy(Local(1)))),
     Assign(Local(1), BinaryOp("Add", Copy(Local(2)), Copy(Local(2))))}

\* one block of statements on a second user local x of the type ty
UserLocalBody(ty, statements) ==
    Body("f",
         <<BasicBlockData(statements, Some(Return))>>,
         <<LocalDecl("I32", User("retval")), LocalDecl(ty, User("x")),
           LocalDecl(ty, Temp)>>,
         <<Const("I32", "5")>>,
         0)

UserLocalBodies ==
    {UserLocalBody(ty, statements) :
        ty \in {"I32", "I64"},
        statements \in UNION {[1..n -> UserLocalStatements] : n \in 1..MaxStmts}}

\* the targets the terminator of block i of n takes in the bodies below:
\* the next two blocks, and the entry block from the last one
CfgTargets(i, n) == IF i = n - 1 THEN {0} ELSE {i + 1, i + 2} \cap (0..(n - 1))

\* the terminators over a set of targets; a SwitchInt switches on retval
CfgTerminators(targets) ==
    {Return}
      \cup {Goto(t) : t \in targets}
      \cup {Call(Constant(Const("I32", "0")), <<>>, Local(0), t) : t \in targets}
      \cup {SwitchInt(Copy(Local(0)), <<0, 1>>, <<t1, t2>>) : t1 \in targets, t2 \in targets}

\* MaxBlocks blocks without statements, the i-th ended by terminators[i + 1]
CfgBody(terminators) ==
    Body("f",
         [i \in 1..Len(terminators) |-> BasicBlockData(<<>>, Some(terminators[i]))],
         <<LocalDecl("I32", User("retval"))>>,
         <<>>,
         0)

RECURSIVE CfgTerminatorSeqs(_, _)
\* the terminators of the blocks i .. n - 1
CfgTerminatorSeqs(i, n) ==
    IF i = n THEN {<<>>}
    ELSE {<<t>> \o rest : t \in CfgTerminators(CfgTargets(i, n)),
                          rest \in CfgTerminatorSeqs(i + 1, n)}

CfgBodies == {CfgBody(terminators) : terminators \in CfgTerminatorSeqs(0, MaxBlocks)}

BodyInputs ==
    {BinaryBody("I32", ty1, ty2) : ty1 \in PrimitiveTypes, ty2 \in PrimitiveTypes}
      \cup UserLocalBodies
      \cup CfgBodies

(***************************************************************************)
(* lexer: characters.  A character is written as itself, or as its code     *)
(* point when it has no plain spelling.                                     *)
(***************************************************************************)
\* cursor::EOF_CHAR, the character '\0'
EOF_CHAR == "U+0000"

\* the characters of the inputs: of every class that lex tells apart
Alphabet ==
    {" ", "U+000A", "r", "a", "_", "0", "7", "#", "/", "*", ";", "U+0022", "U+0027",
     "U+1F603", EOF_CHAR}

is_whitespace ==
    [c \in Alphabet |->
        c \in {"U+0009", "U+000A", "U+000B", "U+000C", "U+000D", " ", "U+0085",
               "U+200E", "U+200F", "U+2028", "U+2029"}]

\* '_' or unicode_xid's XID_Start
is_id_start == [c \in Alphabet |-> c \in {"_", "r", "a"}]

\* unicode_xid's XID_Continue
is_id_continue == [c \in Alphabet |-> c \in {"_", "r", "a", "0", "7"}]

\* '0'..='9'
is_decimal_digit == [c \in Alphabet |-> c \in {"0", "7"}]

\* !c.is_ascii() && c.is_emoji_char()
is_non_ascii_emoji == [c \in Alphabet |-> c = "U+1F603"]

(***************************************************************************)
(* lexer: Cursor, a peekable iterator over the characters with the number   *)
(* of characters taken since the last token.                                *)
(***************************************************************************)
Cursor_new(input) == [chars |-> input, pos |-> 0, prev |-> EOF_CHAR]

first(c) == IF c.chars = <<>> THEN EOF_CHAR ELSE Head(c.chars)

second(c) == IF Len(c.chars) < 2 THEN EOF_CHAR ELSE c.chars[2]

pos(c) == c.pos

reset_pos(c) == [c EXCEPT !.pos = 0]

\* Cursor::next: the cursor after the call; the character returned is first(c)
next(c) ==
    [chars |-> IF c.chars = <<>> THEN <<>> ELSE Tail(c.chars),
     pos |-> c.pos + 1,
     prev |-> first(c)]

RECURSIVE eat_while(_, _)
eat_while(c, predicate) ==
    IF predicate[first(c)] /\ first(c) # EOF_CHAR
    THEN eat_while(next(c), predicate)
    ELSE c

(***************************************************************************)
(* lexer: tokens.                                                          *)
(***************************************************************************)
Token_new(kind, len) == [kind |-> kind, len |-> len]

\* a TokenKind without fields
TokenKind(name) == [name |-> name]
LineComment == [name |-> "LineComment", doc_style |-> None]
BlockComment == [name |-> "BlockComment", doc_style |-> None, terminated |-> TRUE]
Lifetime == [name |-> "Lifetime", starts_with_number |-> FALSE]
LiteralKind(kind, suffix_start) ==
    [name |-> "Literal", kind |-> kind, suffix_start |-> suffix_start]
\* LiteralKind::Int { base: Base::Decimal, empty_int: false }
LiteralKind_Int == [name |-> "Int", base |-> "Decimal", empty_int |-> FALSE]
RawStr == [name |-> "RawStr", n_hashes |-> None]
Str == [name |-> "Str", terminated |-> TRUE]

\* the one-character tokens of lex
OneCharacterTokens ==
    [c \in {";", ":", ",", ".", "(", ")", "{", "}", "[", "]", "@", "#", "~", "?",
            "$", "=", "!", "<", ">", "&", "|", "+", "-", "*", "%", "^"} |->
        CASE c = ";" -> "Semicolon"    [] c = ":" -> "Colon"
          [] c = "," -> "Comma"        [] c = "." -> "Dot"
          [] c = "(" -> "OpenParen"    [] c = ")" -> "CloseParen"
          [] c = "{" -> "OpenBrace"    [] c = "}" -> "CloseBrace"
          [] c = "[" -> "OpenBracket"  [] c = "]" -> "CloseBracket"
          [] c = "@" -> "At"           [] c = "#" -> "Hash"
          [] c = "~" -> "Tilde"        [] c = "?" -> "Question"
          [] c = "$" -> "Dollar"       [] c = "=" -> "Eq"
          [] c = "!" -> "Bang"         [] c = "<" -> "Lt"
          [] c = ">" -> "Gt"           [] c = "&" -> "And"
          [] c = "|" -> "Or"           [] c = "+" -> "Plus"
          [] c = "-" -> "Minus"        [] c = "*" -> "Star"
          [] c = "%" -> "Percent"      [] c = "^" -> "Caret"]

\* what an arm of lex leaves: the cursor and the TokenKind
Lexed(c, kind) == [cursor |-> c, kind |-> kind]

\* Cursor::whitespace taking no further character
whitespace_single(c) == Lexed(c, TokenKind("Whitespace"))

\* Cursor::whitespace
whitespace(c) == Lexed(eat_while(c, is_whitespace), TokenKind("Whitespace"))

line_comment(c) == Lexed(c, LineComment)

block_comment(c) == Lexed(c, BlockComment)

\* eats '#', then the identifier
raw_identifier(c) == Lexed(eat_while(next(c), is_id_continue), TokenKind("RawIdentifier"))

unknown_or_invalid_identifier(c) == Lexed(c, TokenKind("InvalidIdentifier"))

\* identifier_or_unknown after eat_while(is_id_continue)
identifier_or_unknown_first(c) ==
    IF is_non_ascii_emoji[first(c)]
    THEN unknown_or_invalid_identifier(c)
    ELSE Lexed(c, TokenKind("Identifier"))

identifier_or_unknown(c) == identifier_or_unknown_first(eat_while(c, is_id_continue))

RECURSIVE eat_decimal_digits(_)
\* the loop of eat_decimal_digits: '_' and digits are taken
eat_decimal_digits(c) ==
    IF first(c) = "_" \/ is_decimal_digit[first(c)]
    THEN eat_decimal_digits(next(c))
    ELSE c

\* number_kind: the cursor after it; the kind is Int { Decimal, false }
number_kind(c, first_digit) == IF first_digit = "0" THEN c ELSE eat_decimal_digits(c)

\* lex, the Literal arm once the cursor is past the literal
lex_literal(c, kind) == Lexed(c, LiteralKind(kind, pos(c)))

lifetime_or_char(c) == Lexed(c, Lifetime)

\* lex, the match on first_char, c the cursor after self.next()
lex_match(c, first_char) ==
    IF is_whitespace[first_char] THEN whitespace(c)
    ELSE IF first_char = "/"
    THEN IF first(c) = "/" THEN line_comment(c)
         ELSE IF first(c) = "*" THEN block_comment(c)
         ELSE Lexed(c, TokenKind("Slash"))
    ELSE IF first_char = "r"
    THEN IF first(c) = "#" /\ is_id_start[second(c)] THEN raw_identifier(c)
         ELSE IF first(c) \in {"#", "U+0022"} THEN lex_literal(c, RawStr)
         ELSE identifier_or_unknown(c)
    ELSE IF is_id_start[first_char] THEN identifier_or_unknown(c)
    ELSE IF is_decimal_digit[first_char]
    THEN lex_literal(number_kind(c, first_char), LiteralKind_Int)
    ELSE IF first_char \in DOMAIN OneCharacterTokens
    THEN Lexed(c, TokenKind(OneCharacterTokens[first_char]))
    ELSE IF first_char = "U+0027" THEN lifetime_or_char(c)
    ELSE IF first_char = "U+0022" THEN lex_literal(c, Str)
    ELSE IF first_char = EOF_CHAR THEN Lexed(c, TokenKind("Eof"))
    ELSE Lexed(c, TokenKind("Unknown"))

\* lex, its end: the token of the length pos, and the position reset
lex_token(r) == [cursor |-> reset_pos(r.cursor), token |-> Token_new(r.kind, pos(r.cursor))]

\* Cursor::lex: the cursor after the call and the token returned
lex(c) == lex_token(lex_match(next(c), first(c)))

RECURSIVE StringsOfLen(_)
\* the strings of n characters
StringsOfLen(n) ==
    IF n = 0 THEN {<<>>}
    ELSE {<<c>> \o s : c \in Alphabet, s \in StringsOfLen(n - 1)}

\* the strings handed to tokenize
LexInputs == UNION {StringsOfLen(n) : n \in 0..MaxInput}

(***************************************************************************)
(* The driver constructs one Parser (Parser::new()) and calls parse on the  *)
(* tokens of its input once.                                               *)
(***************************************************************************)
Init ==
    /\ tokens = <<>>
    /\ index = 0
    /\ parsed = NotRun
    /\ root = None
    /\ hir = NotRun
    /\ codegen_body = None
    /\ lir = NotRun
    /\ stderr = <<>>
    /\ output = None
    /\ exit_status = None
    /\ lex_input = <<>>
    /\ cursor = Cursor_new(<<>>)
    /\ lexed = <<>>
    /\ pc = "new"

\* the state Parser::parse leaves behind, given what parse_fn returned
ParseDone(input, r) ==
    /\ tokens' = input
    /\ index' = r.i
    /\ parsed' = [st |-> r.st, val |-> r.val, msg |-> r.msg]
    /\ pc' = "parsed"
    /\ UNCHANGED <<root, hir, codegen_body, lir, stderr, output, exit_status>>
    /\ UNCHANGED lexvars

\* Parser::parse: take the tokens of the input, reset the index, parse_fn
Parse(input) ==
    /\ pc = "new"
    /\ ParseDone(input, parse(input))

ParserNext == pc = "new" /\ \E input \in Inputs : Parse(input)

SpecParser == Init /\ [][ParserNext]_vars

\* hir_build(root): a fresh Builder, build_fn
HirBuild(node) ==
    /\ pc = "new"
    /\ root' = Some(node)
    /\ hir' = hir_build(node)
    /\ pc' = "lowered"
    /\ UNCHANGED <<tokens, index, parsed, codegen_body, lir, stderr, output, exit_status>>
    /\ UNCHANGED lexvars

HirNext == pc = "new" /\ \E node \in NodeInputs : HirBuild(node)

SpecHir == Init /\ [][HirNext]_vars

(***************************************************************************)
(* main: a body that hir_build returned Ok is handed to lir_build.         *)
(***************************************************************************)
LirBuild ==
    /\ pc = "lowered"
    /\ hir.st = "Ok"
    /\ codegen_body' = Some(hir.val)
    /\ lir' = lir_build(hir.val)
    /\ pc' = "emitted"
    /\ UNCHANGED <<tokens, index, parsed, root, hir, stderr, output, exit_status>>
    /\ UNCHANGED lexvars

\* codegen::lir_build called with a hir::Body built by hand
LirBuildBody(b) ==
    /\ pc = "new"
    /\ codegen_body' = Some(b)
    /\ lir' = lir_build(b)
    /\ pc' = "emitted"
    /\ UNCHANGED <<tokens, index, parsed, root, hir, stderr, output, exit_status>>
    /\ UNCHANGED lexvars

LirNext ==
    \/ pc = "new" /\ \E node \in LowerableNodeInputs : HirBuild(node)
    \/ LirBuild
    \/ pc = "new" /\ \E b \in BodyInputs : LirBuildBody(b)

SpecLir == Init /\ [][LirNext]_vars

(***************************************************************************)
(* main: parse the input, unwrap, hir_build, then match on its result.     *)
(* A panic writes its message to the standard error stream and ends the    *)
(* process with status 101; returning from main ends it with status 0.     *)
(***************************************************************************)
\* a panic that ends the process with status 0
MainPanicsQuietly(m) ==
    /\ stderr' = Append(stderr, m)
    /\ exit_status' = Some(0)
    /\ pc' = "exited"
    /\ UNCHANGED output

\* a panic unwinds out of main
MainPanics(m) ==
    /\ stderr' = Append(stderr, m)
    /\ exit_status' = Some(101)
    /\ pc' = "exited"
    /\ UNCHANGED output

\* main returns
MainReturns ==
    /\ exit_status' = Some(0)
    /\ pc' = "exited"

\* parser.parse(&input).unwrap() took the Err arm (or parse itself panicked)
MainUnwrap ==
    /\ pc = "parsed"
    /\ parsed.st # "Ok"
    /\ MainPanics(parsed.msg)
    /\ UNCHANGED <<tokens, index, parsed, root, hir, codegen_body, lir>>
    /\ UNCHANGED lexvars

\* hir::hir_build(root) on the node parse returned
MainHirBuild ==
    /\ pc = "parsed"
    /\ parsed.st = "Ok"
    /\ root' = Some(parsed.val)
    /\ hir' = hir_build(parsed.val)
    /\ IF hir'.st = "Panic"
       THEN MainPanics(hir'.msg)
       ELSE pc' = "lowered" /\ UNCHANGED <<stderr, output, exit_status>>
    /\ UNCHANGED <<tokens, index, parsed, codegen_body, lir>>
    /\ UNCHANGED lexvars

\* the Ok arm after visualize: lir_build(hir).unwrap(), then fs::write, which
\* succeeds or not
MainWrite(r, written) ==
    /\ lir' = r
    /\ IF r.st # "Ok" THEN MainPanics(r.msg)
       ELSE IF written
       THEN output' = Some(r.val) /\ MainReturns /\ UNCHANGED stderr
       ELSE MainPanics("Unable to write file")

\* match hir { Ok(hir) => visualize, lir_build, write; Err(e) => eprintln }
MainMatch ==
    /\ pc = "lowered"
    /\ IF hir.st = "Err"
       THEN /\ stderr' = Append(stderr, hir.msg)
            /\ MainReturns
            /\ UNCHANGED <<codegen_body, lir, output>>
       ELSE IF graphify(hir.val).st # "Ok"
       THEN MainPanics(graphify(hir.val).msg) /\ UNCHANGED <<codegen_body, lir>>
       ELSE /\ codegen_body' = Some(hir.val)
            /\ \E written \in BOOLEAN : MainWrite(lir_build(hir.val), written)
    /\ UNCHANGED <<tokens, index, parsed, root, hir>>
    /\ UNCHANGED lexvars

MainNext ==
    \/ pc = "new" /\ \E input \in Inputs : Parse(input)
    \/ MainUnwrap
    \/ MainHirBuild
    \/ MainMatch

SpecMain == Init /\ [][MainNext]_vars

(***************************************************************************)
(* lexer::tokenize: an iterator that owns a Cursor and calls lex until it  *)
(* returns Eof.                                                            *)
(***************************************************************************)
\* tokenize(input): Cursor::new(input)
Tokenize(input) ==
    /\ pc = "new"
    /\ lex_input' = input
    /\ cursor' = Cursor_new(input)
    /\ lexed' = <<>>
    /\ pc' = "lexing"
    /\ UNCHANGED <<tokens, index, parsed, root, hir, codegen_body, lir, stderr, output, exit_status>>

\* one call of the closure of from_fn: None on Eof, else Some(token)
IteratorNext ==
    /\ pc = "lexing"
    /\ cursor' = lex(cursor).cursor
    /\ IF lex(cursor).token.kind = TokenKind("Eof")
       THEN pc' = "lexed" /\ UNCHANGED lexed
       ELSE lexed' = Append(lexed, lex(cursor).token) /\ UNCHANGED pc
    /\ UNCHANGED <<tokens, index, parsed, root, hir, codegen_body, lir, stderr, output, exit_status, lex_input>>

LexerNext ==
    \/ pc = "new" /\ \E input \in LexInputs : Tokenize(input)
    \/ IteratorNext

SpecLexer == Init /\ [][LexerNext]_vars

(***************************************************************************)
(* Properties of the parser.                                               *)
(***************************************************************************)
\* the ast::BinOpKind each operator token stands for
BinOpKindOf ==
    [k \in BinOpTokens |->
        CASE k = "Lt" -> "Lt"       [] k = "Gt" -> "Gt"
          [] k = "LtEq" -> "Le"     [] k = "GtEq" -> "Ge"
          [] k = "EqEq" -> "Eq"     [] k = "NotEq" -> "Ne"
          [] k = "Or" -> "BitOr"    [] k = "Caret" -> "BitXor"
          [] k = "And" -> "BitAnd"
          [] k = "ShiftLeft" -> "ShiftLeft" [] k = "ShiftRight" -> "ShiftRight"
          [] k = "Plus" -> "Plus"   [] k = "Minus" -> "Minus"
          [] k = "Star" -> "Multiply" [] k = "Slash" -> "Divide"
          [] k = "Percent" -> "Modulo"]

\* the precedence ladder: comparison lowest, multiplicative highest
prec(k) ==
    IF k \in ComparisonTokens THEN 0
    ELSE CHOOSE l \in DOMAIN LeftLevels : k \in LeftLevels[l]

\* the expression an operand token denotes
AtomExpr(tok) == IF tok.k = "Number" THEN Literal(tok.v) ELSE Path(tok.v)

\* the body of a parsed function as the sequence of its statements
BodyStmts == parsed.val.body.val.stmts

\* a op1 b op2 c at tokens 8..12, grouped by precedence
Grouped(toks) ==
    IF prec(toks[9].k) < prec(toks[11].k)
    THEN Binary(AtomExpr(toks[8]), BinOpKindOf[toks[9].k],
                Binary(AtomExpr(toks[10]), BinOpKindOf[toks[11].k], AtomExpr(toks[12])))
    ELSE Binary(Binary(AtomExpr(toks[8]), BinOpKindOf[toks[9].k], AtomExpr(toks[10])),
                BinOpKindOf[toks[11].k], AtomExpr(toks[12]))

\* C1: for `a op1 b op2 c` with operators of different precedence the parser
\* returns Binary(a, op1, Binary(b, op2, c)) when prec(op1) < prec(op2) and
\* Binary(Binary(a, op1, b), op2, c) when prec(op1) > prec(op2).
C1_PrecedenceGrouping ==
    (pc = "parsed" /\ tokens \in PrecInputs /\ prec(tokens[9].k) # prec(tokens[11].k))
        => /\ parsed.st = "Ok"
           /\ BodyStmts = <<StmtExpr(Grouped(tokens))>>

\* 0 + b * 2 and 0 * b + 2 ... : a lower operator followed by a higher one
C1_Witness ==
    /\ pc = "parsed"
    /\ tokens = Wrap(Chain(<<"Plus", "Star">>))
    /\ parsed.st = "Ok"
    /\ BodyStmts[1].expr =
         Binary(Literal("0"), "Plus", Binary(Path("b"), "Multiply", Literal("2")))

\* the left-leaning tree of x0 op1 x1 ... opn xn, whose x0 is token 8
RECURSIVE LeftTree(_, _)
LeftTree(toks, n) ==
    IF n = 0 THEN AtomExpr(toks[8])
    ELSE Binary(LeftTree(toks, n - 1), BinOpKindOf[toks[7 + 2 * n].k],
                AtomExpr(toks[8 + 2 * n]))

\* C2: a chain x0 op x1 op ... op xn of operators of one left-associative
\* level parses to the left-leaning tree, each operator kind in its position.
C2_LeftAssociative ==
    (pc = "parsed" /\ tokens \in ChainInputs)
        => /\ parsed.st = "Ok"
           /\ BodyStmts = <<StmtExpr(LeftTree(tokens, (Len(tokens) - 9) \div 2))>>

\* 0 - b + 2 - d
C2_Witness ==
    /\ pc = "parsed"
    /\ tokens = Wrap(Chain(<<"Minus", "Plus", "Minus">>))
    /\ parsed.st = "Ok"
    /\ BodyStmts[1].expr =
         Binary(Binary(Binary(Literal("0"), "Minus", Path("b")), "Plus", Literal("2")),
                "Minus", Path("d"))

\* inputs of the grammar `if` EXPR BLOCK (`else` (IF | BLOCK))?, in a function
WellFormedIfInputs == {Wrap(b) : b \in IfNoElseBodies \cup IfElseBodies}

\* C3: on well-formed input, an `if` without `else` included, parse ends in
\* Ok or Err and never in a panic.
C3_NoPanicOnWellFormed ==
    (pc = "parsed" /\ tokens \in WellFormedIfInputs \cup ChainInputs \cup ItemInputs)
        => parsed.st \in {"Ok", "Err"}

\* C4: `if` EXPR BLOCK yields an If whose else arm is None exactly when the
\* token after the then-block is not `else`, and Some(Block or If) when it is.
C4_ElseArmOptional ==
    \A c \in Conds, t \in Arms :
        /\ (pc = "parsed" /\ tokens = Wrap(IfNoElse(c, t)))
              => /\ parsed.st = "Ok"
                 /\ BodyStmts[1].expr.kind = "If"
                 /\ BodyStmts[1].expr.else = None
        /\ (pc = "parsed" /\ \E e \in Arms : tokens = Wrap(IfElse(c, t, e)))
              => /\ parsed.st = "Ok"
                 /\ BodyStmts[1].expr.else.kind = "Some"
                 /\ BodyStmts[1].expr.else.val.kind = "Block"
        /\ (pc = "parsed" /\ \E e \in Arms : tokens = Wrap(IfElseIfElse(c, t, e)))
              => /\ parsed.st = "Ok"
                 /\ BodyStmts[1].expr.else.kind = "Some"
                 /\ BodyStmts[1].expr.else.val.kind = "If"

\* a cmp1 b cmp2 c, no parentheses
ChainedComparisonInputs ==
    {Wrap(Chain(<<o1, o2>>)) : o1 \in ComparisonTokens, o2 \in ComparisonTokens}

\* C5: a chained comparison without parentheses is rejected with an error.
C5_ChainedComparisonRejected ==
    (pc = "parsed" /\ tokens \in ChainedComparisonInputs) => parsed.st = "Err"

\* the primitive type each name of the closed set denotes
PrimitiveTypeOf ==
    [id \in TypeNames |->
        CASE id = "i8" -> "I8"   [] id = "i16" -> "I16"
          [] id = "i32" -> "I32" [] id = "i64" -> "I64"
          [] id = "u8" -> "U8"   [] id = "u16" -> "U16"
          [] id = "u32" -> "U32" [] id = "u64" -> "U64"
          [] id = "f32" -> "F32" [] id = "f64" -> "F64"
          [] id = "void" -> "Void"]

\* C6: parse_type returns the matching primitive type for every name of the
\* closed set and Err("Unknown type") for every other identifier.
C6_TypeNamesClosedSet ==
    (pc = "parsed" /\ tokens \in TypeInputs)
        => IF tokens[6].v \in TypeNames
           THEN /\ parsed.st = "Ok"
                /\ parsed.val.sig.return_type = PrimitiveTypeOf[tokens[6].v]
           ELSE /\ parsed.st = "Err"
                /\ parsed.msg = "Unknown type"

RECURSIVE BlocksOfExpr(_)
RECURSIVE BlocksOfBlock(_)
\* every Block inside an expression
BlocksOfExpr(e) ==
    CASE e.kind = "Block" -> BlocksOfBlock(e.block)
      [] e.kind = "If" ->
            BlocksOfExpr(e.cond) \cup BlocksOfBlock(e.then)
              \cup (IF e.else = None THEN {} ELSE BlocksOfExpr(e.else.val))
      [] e.kind = "Binary" -> BlocksOfExpr(e.left) \cup BlocksOfExpr(e.right)
      [] e.kind = "Unary" -> BlocksOfExpr(e.expr)
      [] OTHER -> {}
BlocksOfStmt(s) == IF s.kind = "Let" THEN BlocksOfExpr(s.init) ELSE BlocksOfExpr(s.expr)
\* a Block and every Block nested in it
BlocksOfBlock(b) ==
    {b} \cup UNION {BlocksOfStmt(b.stmts[j]) : j \in 1..Len(b.stmts)}

\* C7: every Block of the parsed tree has at most one Expr statement, and
\* that statement is its last.
C7_TailExprIsLast ==
    (pc = "parsed" /\ parsed.st = "Ok")
        => \A b \in BlocksOfBlock(parsed.val.body.val) :
              \A j \in 1..Len(b.stmts) :
                  b.stmts[j].kind = "Expr" => j = Len(b.stmts)

\* C8: when parse returns Ok the index equals the number of tokens.
C8_ConsumesWholeInput ==
    (pc = "parsed" /\ parsed.st = "Ok") => index = Len(tokens)

(***************************************************************************)
(* Properties of the lowering.                                             *)
(***************************************************************************)
\* the blocks one terminator edge away from a block of `seen`, with `seen`
ReachStep(body, seen) ==
    seen \cup UNION {IF body.basic_blocks[bb + 1].terminator = None THEN {}
                     ELSE {t \in 0..(Len(body.basic_blocks) - 1) :
                             \E k \in DOMAIN successors(body.basic_blocks[bb + 1].terminator.val) :
                                successors(body.basic_blocks[bb + 1].terminator.val)[k] = t}
                     : bb \in seen}

RECURSIVE ReachFrom(_, _)
ReachFrom(body, seen) ==
    IF ReachStep(body, seen) = seen THEN seen ELSE ReachFrom(body, ReachStep(body, seen))

\* the blocks reachable from BasicBlock(0) through terminator successors
Reachable(body) == ReachFrom(body, {0})

\* C9: when hir_build returns Ok(Body), the empty body included, every block
\* reachable from BasicBlock(0) has terminator = Some(_).
C9_ReachableBlocksTerminated ==
    (pc = "lowered" /\ hir.st = "Ok")
        => \A bb \in Reachable(hir.val) :
              hir.val.basic_blocks[bb + 1].terminator # None

PlacesOfOperand(o) == IF o.kind = "Copy" THEN {o.place} ELSE {}
PlacesOfRvalue(rv) ==
    CASE rv.kind = "Use" -> PlacesOfOperand(rv.operand)
      [] rv.kind = "BinaryOp" -> PlacesOfOperand(rv.left) \cup PlacesOfOperand(rv.right)
      [] rv.kind = "UnaryOp" -> PlacesOfOperand(rv.operand)
PlacesOfStatement(stmt) == {stmt.place} \cup PlacesOfRvalue(stmt.rvalue)
PlacesOfTerminator(t) ==
    IF t = None THEN {}
    ELSE IF t.val.kind = "SwitchInt" THEN PlacesOfOperand(t.val.value) ELSE {}
\* every place a block mentions
PlacesOfBlock(data) ==
    PlacesOfTerminator(data.terminator)
      \cup UNION {PlacesOfStatement(data.statements[j]) : j \in DOMAIN data.statements}
\* every BasicBlock a block's terminator names
TargetsOfBlock(data) ==
    IF data.terminator = None THEN {}
    ELSE {successors(data.terminator.val)[k] : k \in DOMAIN successors(data.terminator.val)}

\* C10: in every Body hir_build returns, the BasicBlock indices of the
\* terminators are below basic_blocks.len(), the Place::Local indices of the
\* statements and operands are below local_decls.len(), and local_decls[0]
\* is the user local "retval" of the function's return type.
C10_IndicesInRange ==
    (pc = "lowered" /\ hir.st = "Ok")
        => /\ \A j \in DOMAIN hir.val.basic_blocks :
                /\ \A t \in TargetsOfBlock(hir.val.basic_blocks[j]) :
                      t \in 0..(Len(hir.val.basic_blocks) - 1)
                /\ \A place \in PlacesOfBlock(hir.val.basic_blocks[j]) :
                      /\ place.kind = "Local"
                      /\ place.local \in 0..(Len(hir.val.local_decls) - 1)
           /\ hir.val.local_decls # <<>>
           /\ hir.val.local_decls[1].local_info = User("retval")
           /\ hir.val.local_decls[1].ty = root.val.sig.return_type

\* an `if` nested in the then-block of an `if`: five blocks, two temporaries,
\* a SwitchInt on the second
C10_Witness ==
    /\ pc = "lowered"
    /\ hir.st = "Ok"
    /\ Len(hir.val.basic_blocks) = 5
    /\ Len(hir.val.local_decls) = 3
    /\ hir.val.basic_blocks[1].terminator = Some(SwitchInt(Copy(Local(2)), <<0, 1>>, <<1, 2>>))

\* the root is a function whose body is a single tail `if`
TailIfRoot ==
    /\ root # None
    /\ root.val.body # None
    /\ Len(root.val.body.val.stmts) = 1
    /\ root.val.body.val.stmts[1].kind = "Expr"
    /\ root.val.body.val.stmts[1].expr.kind = "If"

\* the tail `if` of the root
TailIf == root.val.body.val.stmts[1].expr
\* the blocks build_if creates for the tail `if` lowered in BasicBlock(0)
TailIfEnd == IF TailIf.else = None THEN 2 ELSE 3
\* false_target: end_bb without an else arm, else_bb = BasicBlock(2) with one
TailIfFalseTarget == IF TailIf.else = None THEN TailIfEnd ELSE 2

\* the entry block ends in the SwitchInt of the tail `if` on the I1 temporary k
SwitchesOnTemp(k) ==
    /\ hir.val.local_decls[k + 1] = LocalDecl("I1", Temp)
    /\ hir.val.basic_blocks[1].terminator =
          Some(SwitchInt(Copy(Local(k)), <<0, 1>>, <<1, TailIfFalseTarget>>))

\* the then block, and the else block when there is one, go to the end block,
\* and the end block, which build_if returned, was terminated by build_return
ArmsJoinAtEnd ==
    /\ Len(hir.val.basic_blocks) = TailIfEnd + 1
         \/ Len(hir.val.basic_blocks) > TailIfEnd + 1
    /\ hir.val.basic_blocks[2].terminator = Some(Goto(TailIfEnd))
    /\ TailIf.else # None => hir.val.basic_blocks[3].terminator = Some(Goto(TailIfEnd))
    /\ hir.val.basic_blocks[TailIfEnd + 1].terminator = Some(Return)

\* C11: lowering an If in block B leaves B with SwitchInt{Copy(cond_place),
\* [0, 1], [then_bb, false_target]}, cond_place a fresh I1 Temp assigned in B,
\* false_target else_bb with an else arm and end_bb without; the arms end in
\* Goto{end_bb}; build_if returns end_bb.  Stated for B = BasicBlock(0).
C11_IfLowering ==
    (pc = "lowered" /\ hir.st = "Ok" /\ TailIfRoot)
        => /\ ArmsJoinAtEnd
           /\ \E k \in 1..(Len(hir.val.local_decls) - 1) :
                 /\ SwitchesOnTemp(k)
                 /\ \E j \in DOMAIN hir.val.basic_blocks[1].statements :
                       hir.val.basic_blocks[1].statements[j].place = Local(k)

RECURSIVE IfsOfExpr(_)
RECURSIVE IfsOfStmts(_)
\* the number of If nodes of an expression
IfsOfExpr(e) ==
    CASE e.kind = "Block" -> IfsOfStmts(e.block.stmts)
      [] e.kind = "If" ->
            1 + IfsOfExpr(e.cond) + IfsOfStmts(e.then.stmts)
              + (IF e.else = None THEN 0 ELSE IfsOfExpr(e.else.val))
      [] e.kind = "Binary" -> IfsOfExpr(e.left) + IfsOfExpr(e.right)
      [] e.kind = "Unary" -> IfsOfExpr(e.expr)
      [] OTHER -> 0
\* the number of If nodes of a sequence of statements
IfsOfStmts(stmts) ==
    IF stmts = <<>> THEN 0
    ELSE (IF Head(stmts).kind = "Let" THEN IfsOfExpr(Head(stmts).init)
          ELSE IfsOfExpr(Head(stmts).expr))
           + IfsOfStmts(Tail(stmts))

\* the blocks whose terminator is Goto{bb}
GotoSources(body, bb) ==
    {j \in 0..(Len(body.basic_blocks) - 1) :
        body.basic_blocks[j + 1].terminator = Some(Goto(bb))}
\* the blocks with an edge into bb that is not a Goto
OtherSources(body, bb) ==
    {j \in 0..(Len(body.basic_blocks) - 1) :
        /\ bb \in TargetsOfBlock(body.basic_blocks[j + 1])
        /\ body.basic_blocks[j + 1].terminator.val.kind # "Goto"}
\* the merge blocks: build_if alone makes Goto terminators, each to its end_bb
MergeBlocks(body) ==
    {bb \in 0..(Len(body.basic_blocks) - 1) : GotoSources(body, bb) # {}}

\* a SwitchInt whose then target goes to bb and whose false target is bb:
\* the block an If without else arm was lowered in
SwitchesPast(body, j, bb) ==
    /\ body.basic_blocks[j + 1].terminator.val.kind = "SwitchInt"
    /\ body.basic_blocks[j + 1].terminator.val.targets.blocks[2] = bb
    /\ body.basic_blocks[j + 1].terminator.val.targets.blocks[1] \in GotoSources(body, bb)

\* C12 as stated: every lowered If has exactly one merge block, without
\* statements, entered only by the Goto of the If's then block and, with an
\* else arm, of its else block.
C12_MergeOnlyFromGoto ==
    (pc = "lowered" /\ hir.st = "Ok")
        => /\ Cardinality(MergeBlocks(hir.val)) = IfsOfStmts(root.val.body.val.stmts)
           /\ \A bb \in MergeBlocks(hir.val) :
                 /\ hir.val.basic_blocks[bb + 1].statements = <<>>
                 /\ Cardinality(GotoSources(hir.val, bb)) \in {1, 2}
                 /\ OtherSources(hir.val, bb) = {}

\* C12 amended: every lowered If has exactly one merge block, without
\* statements, entered only by the Goto of the If's then block and, with an
\* else arm, of its else block, or, without an else arm, also by the false
\* edge of the If's SwitchInt.
C12_MergeBlock ==
    (pc = "lowered" /\ hir.st = "Ok")
        => /\ Cardinality(MergeBlocks(hir.val)) = IfsOfStmts(root.val.body.val.stmts)
           /\ \A bb \in MergeBlocks(hir.val) :
                 /\ hir.val.basic_blocks[bb + 1].statements = <<>>
                 /\ Cardinality(GotoSources(hir.val, bb)) \in {1, 2}
                 /\ \A j \in OtherSources(hir.val, bb) :
                       /\ SwitchesPast(hir.val, j, bb)
                       /\ Cardinality(GotoSources(hir.val, bb)) = 1

\* if 1 { 1 } with no else arm: the entry block switches to then_bb and end_bb
C12_Witness ==
    /\ pc = "lowered"
    /\ hir.st = "Ok"
    /\ TailIfRoot
    /\ TailIf.else = None
    /\ MergeBlocks(hir.val) = {2}
    /\ OtherSources(hir.val, 2) = {0}
    /\ GotoSources(hir.val, 2) = {1}

\* the root is a function whose body is a single tail literal
TailLiteralRoot ==
    /\ root # None
    /\ root.val.body # None
    /\ Len(root.val.body.val.stmts) = 1
    /\ root.val.body.val.stmts[1].kind = "Expr"
    /\ root.val.body.val.stmts[1].expr.kind = "Literal"

\* C14: the Const of a lowered Literal has the target type passed down from
\* its parent: the return type for the tail literal of a function, I1 for the
\* literal condition of an `if`.
C14_ConstHasTargetType ==
    /\ (pc = "lowered" /\ hir.st = "Ok" /\ TailLiteralRoot)
          => hir.val.consts =
                <<Const(root.val.sig.return_type, root.val.body.val.stmts[1].expr.value)>>
    /\ (pc = "lowered" /\ hir.st = "Ok" /\ TailIfRoot /\ TailIf.cond.kind = "Literal")
          => \E j \in DOMAIN hir.val.basic_blocks[1].statements :
                hir.val.basic_blocks[1].statements[j].rvalue =
                    Use(Constant(Const("I1", TailIf.cond.value)))

\* C20: hir_build returns Err, and does not panic, for a function without a
\* body and for a body that uses a Path, a Semi statement or a Let statement.
C20_LoweringErrorsAreErr ==
    (pc = "lowered"
       /\ (root.val.body = None \/ UnloweredInStmts(root.val.body.val.stmts)))
        => hir.st = "Err"

(***************************************************************************)
(* C13: the tail if/else with literal arms, in the HIR and in the LIR.     *)
(***************************************************************************)
\* the root is fn f() { if c { x } else { y } }, x and y literals, c without
\* control flow of its own
TailIfElseLiteralArms ==
    /\ TailIfRoot
    /\ TailIf.cond.kind \in {"Literal", "Unary", "Binary"}
    /\ IfsOfExpr(TailIf) = 1
    /\ Len(TailIf.then.stmts) = 1
    /\ TailIf.then.stmts[1].kind = "Expr"
    /\ TailIf.then.stmts[1].expr.kind = "Literal"
    /\ TailIf.else # None
    /\ TailIf.else.val.kind = "Block"
    /\ Len(TailIf.else.val.block.stmts) = 1
    /\ TailIf.else.val.block.stmts[1].kind = "Expr"
    /\ TailIf.else.val.block.stmts[1].expr.kind = "Literal"

\* the index in code of the label line of the block bb, 0 when it has none
LabelAt(code, bb) ==
    IF \E i \in DOMAIN code : code[i] = LabelLine(bb_label(bb))
    THEN CHOOSE i \in DOMAIN code : code[i] = LabelLine(bb_label(bb))
    ELSE 0

\* the index of the last line of the block whose label is at index i: the
\* line before the next label or before the closing brace
BlockEndAt(code, i) ==
    CHOOSE j \in i..Len(code) :
        /\ code[j + 1].op \in {"label", "}"}
        /\ \A k \in (i + 1)..j : code[k].op \notin {"label", "}"}

\* the last line of the emitted block bb
LastLineOf(code, bb) == code[BlockEndAt(code, LabelAt(code, bb))]

RegisterNames(code, b) ==
    {"%" \o ToString(k) : k \in 0..Len(code)}
      \cup {"%" \o b.local_decls[i].local_info.name :
               i \in {j \in DOMAIN b.local_decls : b.local_decls[j].local_info.kind = "User"}}

\* the line embeds an integer literal: add <ty> <lit>, 0 or store <ty> <lit>, ..
EmbedsLiteral(line, code, b) ==
    \/ line.op = "add" /\ line.rhs = "0" /\ line.lhs \notin RegisterNames(code, b)
    \/ line.op = "store" /\ line.val \notin RegisterNames(code, b)

\* C15: in the LIR emitted for a function returning i32, every instruction
\* that embeds an integer literal has the type i32, a literal in an if
\* condition included.
C15_LiteralsAreI32 ==
    (pc = "emitted" /\ lir.st = "Ok" /\ root # None
     /\ root.val.sig.return_type = "I32")
        => \A i \in DOMAIN lir.val :
              EmbedsLiteral(lir.val[i], lir.val, codegen_body.val) => lir.val[i].ty = "i32"

(***************************************************************************)
(* C16: static single assignment.                                          *)
(***************************************************************************)
\* the indices of the lines of code that define a register
DefiningLines(code) == {i \in DOMAIN code : "dst" \in DOMAIN code[i]}

\* C16: in the LIR emitted for a Body that hir_build produced, no register
\* name is the left-hand side of more than one instruction, over all blocks.
C16_SingleAssignment ==
    (pc = "emitted" /\ lir.st = "Ok" /\ root # None)
        => \A i, j \in DefiningLines(lir.val) :
              lir.val[i].dst = lir.val[j].dst => i = j

\* a listing of three blocks or more in which four registers or more are
\* defined, one of them the user local's
C16_Witness ==
    /\ pc = "emitted"
    /\ lir.st = "Ok"
    /\ root # None
    /\ Cardinality(DefiningLines(lir.val)) >= 4
    /\ Cardinality({i \in DOMAIN lir.val : lir.val[i].op = "label"}) >= 4
    /\ \E i \in DefiningLines(lir.val) : lir.val[i].dst = "%retval"

(***************************************************************************)
(* C17: the start: prelude and the pointers of the user locals.            *)
(***************************************************************************)
RECURSIVE UserDecls(_, _)
\* the user locals among local_decls from the i-th on, in order
UserDecls(local_decls, i) ==
    IF i > Len(local_decls) THEN <<>>
    ELSE IF local_decls[i].local_info.kind = "User"
    THEN <<local_decls[i]>> \o UserDecls(local_decls, i + 1)
    ELSE UserDecls(local_decls, i + 1)

\* after the header and start: come one alloca per user local, in the order
\* of local_decls, then br label %bb0 and the label of bb0; the listing has
\* no other alloca
PreludeOf(code, b) ==
    /\ code[2] = LabelLine("start")
    /\ \A k \in DOMAIN UserDecls(b.local_decls, 1) :
          code[2 + k] = AllocaLine("%" \o UserDecls(b.local_decls, 1)[k].local_info.name,
                                   to_string[UserDecls(b.local_decls, 1)[k].ty],
                                   size[UserDecls(b.local_decls, 1)[k].ty])
    /\ code[3 + Len(UserDecls(b.local_decls, 1))] = BrLine("bb0")
    /\ code[4 + Len(UserDecls(b.local_decls, 1))] = LabelLine("bb0")
    /\ Cardinality({i \in DOMAIN code : code[i].op = "alloca"})
          = Len(UserDecls(b.local_decls, 1))

\* the user locals a statement addresses, in the order of its loads and
\* stores: a Use of a constant or a BinaryOp into a user local stores to it,
\* a UnaryOp into a user local loads it and stores to it, a Use of a Copy
\* loads the copied local
AddressedByStatement(b, s) ==
    IF s.rvalue.kind = "Use" /\ s.rvalue.operand.kind = "Copy"
    THEN IF b.local_decls[s.rvalue.operand.place.local + 1].local_info.kind = "User"
         THEN <<s.rvalue.operand.place.local>> ELSE <<>>
    ELSE IF b.local_decls[s.place.local + 1].local_info.kind # "User" THEN <<>>
    ELSE IF s.rvalue.kind = "UnaryOp" THEN <<s.place.local, s.place.local>>
    ELSE <<s.place.local>>

RECURSIVE AddressedByStatements(_, _, _)
AddressedByStatements(b, statements, k) ==
    IF k > Len(statements) THEN <<>>
    ELSE AddressedByStatement(b, statements[k])
           \o AddressedByStatements(b, statements, k + 1)

\* the user locals a block addresses: those of its statements, then the
\* return local when it returns
AddressedBy(b, blk) ==
    AddressedByStatements(b, blk.statements, 1)
      \o (IF blk.terminator = Some(Return) THEN <<0>> ELSE <<>>)

\* the line is a load or a store through the pointer of a user local (the
\* bodies checked name their user locals retval and x), not through a
\* numbered register
AddressesUserLocal(line) ==
    /\ line.op \in {"load", "store"}
    /\ line.ptr \in {"%retval", "%x"}

\* the loads and stores of user locals in the emitted block bb
LoadsAndStoresOf(code, bb) ==
    SelectSeq(SubSeq(code, LabelAt(code, bb) + 1, BlockEndAt(code, LabelAt(code, bb))),
              AddressesUserLocal)

\* the loads and stores of the emitted block bb use, one after the other,
\* the pointers %<name> of the user locals the block addresses
PointersMatch(code, b, bb) ==
    /\ Len(LoadsAndStoresOf(code, bb)) = Len(AddressedBy(b, b.basic_blocks[bb + 1]))
    /\ \A i \in DOMAIN LoadsAndStoresOf(code, bb) :
          LoadsAndStoresOf(code, bb)[i].ptr =
             "%" \o b.local_decls[AddressedBy(b, b.basic_blocks[bb + 1])[i] + 1].local_info.name

RECURSIVE EmittedFrom(_, _, _)
\* the blocks whose labels a listing holds from line i on, in order, among
\* the n blocks bb0 .. bb(n-1)
EmittedFrom(code, i, n) ==
    IF i > Len(code) THEN <<>>
    ELSE IF code[i].op = "label" /\ \E bb \in 0..(n - 1) : code[i].label = bb_label(bb)
    THEN <<CHOOSE bb \in 0..(n - 1) : code[i].label = bb_label(bb)>>
           \o EmittedFrom(code, i + 1, n)
    ELSE EmittedFrom(code, i + 1, n)

\* the emitted blocks of the run, in the order of their labels
Emitted == EmittedFrom(lir.val, 1, Len(codegen_body.val.basic_blocks))

\* Terminator::successors of the block bb
SuccessorsOf(b, bb) == successors(b.basic_blocks[bb + 1].terminator.val)

\* the first position in the sequence e of a block that has bb as successor
DiscovererOf(b, e, bb) ==
    CHOOSE i \in DOMAIN e :
        /\ \E k \in DOMAIN SuccessorsOf(b, e[i]) : SuccessorsOf(b, e[i])[k] = bb
        /\ \A j \in 1..(i - 1) :
              \A k \in DOMAIN SuccessorsOf(b, e[j]) : SuccessorsOf(b, e[j])[k] # bb

\* the first place of bb among the successors of the block that discovers it
DiscoveryIndex(b, e, bb) ==
    CHOOSE k \in DOMAIN SuccessorsOf(b, e[DiscovererOf(b, e, bb)]) :
        /\ SuccessorsOf(b, e[DiscovererOf(b, e, bb)])[k] = bb
        /\ \A m \in 1..(k - 1) : SuccessorsOf(b, e[DiscovererOf(b, e, bb)])[m] # bb

\* breadth-first discovery order: of two blocks the earlier one was
\* discovered by an earlier block, or by the same block at an earlier place
\* of its successors
DiscoveredBefore(b, e, i, j) ==
    \/ DiscovererOf(b, e, e[i]) < DiscovererOf(b, e, e[j])
    \/ /\ DiscovererOf(b, e, e[i]) = DiscovererOf(b, e, e[j])
       /\ DiscoveryIndex(b, e, e[i]) < DiscoveryIndex(b, e, e[j])

\* C18: codegen emits each basic block at most once, exactly the blocks
\* reachable from BasicBlock(0), BasicBlock(0) first and the others in
\* breadth-first discovery order over Terminator::successors (Goto and Call
\* the target, SwitchInt targets.blocks in order, Return nothing).
C18_BreadthFirstEmission ==
    (pc = "emitted" /\ lir.st = "Ok")
        => /\ \A i, j \in DOMAIN Emitted : Emitted[i] = Emitted[j] => i = j
           /\ {Emitted[i] : i \in DOMAIN Emitted} = Reachable(codegen_body.val)
           /\ Emitted[1] = 0
           /\ \A i, j \in 2..Len(Emitted) :
                 i < j => DiscoveredBefore(codegen_body.val, Emitted, i, j)

\* bb0 switches to bb2 and bb1, in that order, both lead on to bb3, and
\* the listing holds bb0, bb2, bb1, bb3
C18_Witness ==
    /\ pc = "emitted"
    /\ lir.st = "Ok"
    /\ Len(codegen_body.val.basic_blocks) = 4
    /\ SuccessorsOf(codegen_body.val, 0) = <<2, 1>>
    /\ SuccessorsOf(codegen_body.val, 1) = <<3>>
    /\ codegen_body.val.basic_blocks[2].terminator.val.kind = "Call"
    /\ SuccessorsOf(codegen_body.val, 2) = <<3>>
    /\ Emitted = <<0, 2, 1, 3>>

(***************************************************************************)
(* C19: the type of a binary instruction.                                  *)
(***************************************************************************)
\* the entry block of the body handed to lir_build assigns a constant to
\* _1 and to _2, then _0 = BinaryOp(op, Copy(_1), Copy(_2))
BinaryOfTwoLocals ==
    /\ codegen_body # None
    /\ Len(codegen_body.val.local_decls) = 3
    /\ Len(codegen_body.val.basic_blocks[1].statements) = 3
    /\ \A k \in 1..2 :
          /\ codegen_body.val.basic_blocks[1].statements[k].place = Local(k)
          /\ codegen_body.val.basic_blocks[1].statements[k].rvalue.kind = "Use"
          /\ codegen_body.val.basic_blocks[1].statements[k].rvalue.operand.kind = "Constant"
    /\ codegen_body.val.basic_blocks[1].statements[3].rvalue.kind = "BinaryOp"
    /\ codegen_body.val.basic_blocks[1].statements[3].rvalue.left = Copy(Local(1))
    /\ codegen_body.val.basic_blocks[1].statements[3].rvalue.right = Copy(Local(2))

\* the types of the left and of the right operand
LeftType == codegen_body.val.local_decls[2].ty
RightType == codegen_body.val.local_decls[3].ty

\* the listing holds the instruction <dst> = <op> <ty> %0, %1
BinaryLineOfType(ty) ==
    \E i \in DOMAIN lir.val :
        /\ "lhs" \in DOMAIN lir.val[i]
        /\ lir.val[i].lhs = "%0"
        /\ lir.val[i].rhs = "%1"
        /\ lir.val[i].ty = ty

\* C19: for every pair of operand types, the type emitted for a binary
\* instruction is the one with the larger byte size, and the left operand's
\* type when the two sizes are equal.
C19_WiderTypeTiesLeft ==
    (pc = "emitted" /\ lir.st = "Ok" /\ BinaryOfTwoLocals)
        => BinaryLineOfType(
              to_string[IF size[RightType] > size[LeftType] THEN RightType ELSE LeftType])

(***************************************************************************)
(* Properties of the driver.                                               *)
(***************************************************************************)
\* a stage of the pipeline failed: parse, hir_build or lir_build did not
\* return Ok
StageFailed ==
    \/ parsed.st \in {"Err", "Panic"}
    \/ hir.st \in {"Err", "Panic"}
    \/ lir.st \in {"Err", "Panic"}

\* C21: when a pipeline stage fails the driver has written its message to
\* the standard error stream, has written no output file and ends with a
\* non-zero exit status; it ends with status 0 only after the LIR file was
\* written.
C21_FailureExitsNonZero ==
    pc = "exited"
        => /\ StageFailed => (stderr # <<>> /\ output = None /\ exit_status # Some(0))
           /\ exit_status = Some(0) => (lir.st = "Ok" /\ output = Some(lir.val))

\* the driver ended on a parse error or on a lowering that panicked, its
\* message on the standard error stream and the status 101
C21_Witness ==
    /\ pc = "exited"
    /\ \/ parsed.st = "Err" /\ stderr = <<parsed.msg>> /\ exit_status = Some(101)
       \/ hir.st = "Panic" /\ stderr = <<hir.msg>> /\ exit_status = Some(101)

(***************************************************************************)
(* C22: the register a Copy operand is printed as.                         *)
(***************************************************************************)
\* the lines of the block bb0 that define a register, in order
DefinitionsOfEntry(code) ==
    SelectSeq(SubSeq(code, LabelAt(code, 0) + 1, BlockEndAt(code, LabelAt(code, 0))),
              LAMBDA line : "dst" \in DOMAIN line)

\* the register printed for the operand of a unary line: sub <ty> 0, <reg>
\* or xor <ty> <reg>, -1
UnaryOperandOf(line) == IF line.op = "sub" THEN line.rhs ELSE line.lhs

\* the register the most recently emitted assignment to p defined, "" when
\* no assignment to p was emitted
LatestOf(regs, p) == IF p \in DOMAIN regs THEN regs[p] ELSE ""

RECURSIVE OperandsAgree(_, _, _, _, _, _)
\* Walks the statements of a block from the k-th on next to the defining
\* lines D emitted for them, n of which belong to earlier statements; regs
\* maps every place to the register that the most recently emitted
\* assignment to it defined (a user local to its pointer).  TRUE when every
\* BinaryOp and UnaryOp line prints, for Copy(p), the register regs[p].
OperandsAgree(b, statements, k, D, n, regs) ==
    IF k > Len(statements) THEN TRUE
    ELSE IF b.local_decls[statements[k].place.local + 1].local_info.kind = "User"
    THEN CASE statements[k].rvalue.kind = "Use" ->
                OperandsAgree(b, statements, k + 1, D, n, regs)
           [] statements[k].rvalue.kind = "BinaryOp" ->
                /\ n + 1 <= Len(D)
                /\ D[n + 1].lhs = LatestOf(regs, statements[k].rvalue.left.place)
                /\ D[n + 1].rhs = LatestOf(regs, statements[k].rvalue.right.place)
                /\ OperandsAgree(b, statements, k + 1, D, n + 1, regs)
           [] statements[k].rvalue.kind = "UnaryOp" ->
                /\ n + 2 <= Len(D)
                /\ D[n + 1].op = "load"
                /\ D[n + 1].ptr = LatestOf(regs, statements[k].rvalue.operand.place)
                /\ UnaryOperandOf(D[n + 2]) = D[n + 1].dst
                /\ OperandsAgree(b, statements, k + 1, D, n + 2, regs)
    ELSE /\ n + 1 <= Len(D)
         /\ CASE statements[k].rvalue.kind = "Use" -> TRUE
              [] statements[k].rvalue.kind = "BinaryOp" ->
                    /\ D[n + 1].lhs = LatestOf(regs, statements[k].rvalue.left.place)
                    /\ D[n + 1].rhs = LatestOf(regs, statements[k].rvalue.right.place)
              [] statements[k].rvalue.kind = "UnaryOp" ->
                    UnaryOperandOf(D[n + 1]) = LatestOf(regs, statements[k].rvalue.operand.place)
         /\ OperandsAgree(b, statements, k + 1, D, n + 1,
                          (statements[k].place :> D[n + 1].dst) @@ regs)

\* C22: the register printed for a Copy(p) operand of a BinaryOp or UnaryOp
\* is the one defined by the most recently emitted assignment to p.  Stated
\* for the bodies of one block that hir_build returns.
C22_CopyReadsLatestRegister ==
    (pc = "emitted" /\ lir.st = "Ok" /\ root # None
     /\ Len(codegen_body.val.basic_blocks) = 1)
        => OperandsAgree(codegen_body.val, codegen_body.val.basic_blocks[1].statements, 1,
                         DefinitionsOfEntry(lir.val), 0,
                         (Local(0) :> "%retval"))

(***************************************************************************)
(* C23: a Block expression lowered as an operand.                          *)
(***************************************************************************)
\* the root is fn f() -> T { { x } op y } with literals x and y
BlockOperandRoot ==
    /\ root # None
    /\ root.val.body # None
    /\ Len(root.val.body.val.stmts) = 1
    /\ root.val.body.val.stmts[1].kind = "Expr"
    /\ root.val.body.val.stmts[1].expr.kind = "Binary"
    /\ root.val.body.val.stmts[1].expr.left.kind = "Block"
    /\ Len(root.val.body.val.stmts[1].expr.left.block.stmts) = 1
    /\ root.val.body.val.stmts[1].expr.left.block.stmts[1].kind = "Expr"
    /\ root.val.body.val.stmts[1].expr.left.block.stmts[1].expr.kind = "Literal"
    /\ root.val.body.val.stmts[1].expr.right.kind = "Literal"

\* the statements of the entry block that assign to the place p
AssignmentsTo(p) ==
    {j \in DOMAIN hir.val.basic_blocks[1].statements :
        hir.val.basic_blocks[1].statements[j].place = p}

\* the statements of the entry block that read Copy(p) as the left operand
\* of a BinaryOp
LeftReadsOf(p) ==
    {j \in DOMAIN hir.val.basic_blocks[1].statements :
        /\ hir.val.basic_blocks[1].statements[j].rvalue.kind = "BinaryOp"
        /\ hir.val.basic_blocks[1].statements[j].rvalue.left = Copy(p)}

\* C23: lowering a Block expression with target place p assigns the value
\* of the block's tail expression to p, and to Local(0) only when p is
\* Local(0): for Binary(Block{x}, op, y) the left temporary _1 is assigned
\* the constant x before the BinaryOp reads it, and the only assignment to
\* _0 is the BinaryOp itself.
C23_BlockAssignsTargetPlace ==
    (pc = "lowered" /\ hir.st = "Ok" /\ BlockOperandRoot)
        => /\ LeftReadsOf(Local(1)) # {}
           /\ \A j \in LeftReadsOf(Local(1)) :
                 \E i \in AssignmentsTo(Local(1)) :
                    /\ i < j
                    /\ hir.val.basic_blocks[1].statements[i].rvalue.kind = "Use"
           /\ AssignmentsTo(Local(0)) \subseteq LeftReadsOf(Local(1))

(***************************************************************************)
(* C24: the order in which a Binary expression is lowered.                 *)
(***************************************************************************)
\* the root is fn f() -> T { l op r }
BinaryRoot ==
    /\ root # None
    /\ root.val.body # None
    /\ Len(root.val.body.val.stmts) = 1
    /\ root.val.body.val.stmts[1].kind = "Expr"
    /\ root.val.body.val.stmts[1].expr.kind = "Binary"

\* the tail expression l op r of the root
TailBinary == root.val.body.val.stmts[1].expr

\* the image of an AST operator among the HIR operators
BinOpImage(op) ==
    CASE op = "Plus" -> "Add"
      [] op = "Minus" -> "Sub"
      [] op = "Multiply" -> "Mul"
      [] op = "Divide" -> "Div"
      [] op = "Modulo" -> "Rem"
      [] OTHER -> op

\* the statements ss are those of l, which assign neither rplace nor the
\* target and end in the assignment to lplace, followed by those of r, which
\* assign neither lplace nor the target and end in the assignment to rplace,
\* followed by the assignment of the BinaryOp to the target
OperandsThenBinaryOp(ss, op, target, lplace, rplace) ==
    /\ Len(ss) >= 3
    /\ ss[Len(ss)] = Assign(target, BinaryOp(BinOpImage(op), Copy(lplace), Copy(rplace)))
    /\ ss[Len(ss) - 1].place = rplace
    /\ \E i \in 1..(Len(ss) - 2) :
          /\ ss[i].place = lplace
          /\ \A j \in 1..i : ss[j].place \notin {rplace, target}
          /\ \A j \in (i + 1)..(Len(ss) - 1) : ss[j].place \notin {lplace, target}

\* C24: lowering Binary(l, op, r) with target type T allocates two fresh
\* Temp locals of type T, appends the statements of l, ending in the
\* assignment to lplace, before those of r, ending in the assignment to
\* rplace, and only then the Assign of BinaryOp(op', Copy(lplace),
\* Copy(rplace)) to the target.  Stated for the tail expression of a
\* function, whose target is _0 and whose temporaries are _1 and _2.
C24_BinaryLoweringOrder ==
    (pc = "lowered" /\ hir.st = "Ok" /\ BinaryRoot)
        => /\ Len(hir.val.local_decls) >= 3
           /\ hir.val.local_decls[2] = LocalDecl(hir.val.local_decls[1].ty, Temp)
           /\ hir.val.local_decls[3] = LocalDecl(hir.val.local_decls[1].ty, Temp)
           /\ OperandsThenBinaryOp(hir.val.basic_blocks[1].statements, TailBinary.op,
                                   Local(0), Local(1), Local(2))

(***************************************************************************)
(* C25: the LIR of an arithmetic tail expression.                          *)
(***************************************************************************)
RECURSIVE IsArithmetic(_)
\* the expression is built from literals and the binary arithmetic operators
IsArithmetic(e) ==
    CASE e.kind = "Literal" -> TRUE
      [] e.kind = "Binary" ->
            /\ e.op \in {"Plus", "Minus", "Multiply", "Divide", "Modulo"}
            /\ IsArithmetic(e.left)
            /\ IsArithmetic(e.right)
      [] OTHER -> FALSE

\* the root is fn f() -> T { e } with an arithmetic tail expression e
ArithmeticRoot ==
    /\ root # None
    /\ root.val.body # None
    /\ Len(root.val.body.val.stmts) = 1
    /\ root.val.body.val.stmts[1].kind = "Expr"
    /\ IsArithmetic(root.val.body.val.stmts[1].expr)

\* the tail expression of the root
TailExpr == root.val.body.val.stmts[1].expr

\* the LIR mnemonic of an arithmetic operator
ArithmeticMnemonic(op) ==
    CASE op = "Plus" -> "add"
      [] op = "Minus" -> "sub"
      [] op = "Multiply" -> "mul"
      [] op = "Divide" -> "sdiv"
      [] op = "Modulo" -> "srem"

RECURSIVE PostOrder(_, _, _)
\* the instructions of e in post-order, the k-th of them defining the
\* temporary %(n + k - 1): a literal is add <ty> <lit>, 0; an operation
\* follows the instructions of its left and then of its right operand and
\* reads the registers their last instructions define
PostOrder(e, ty, n) ==
    IF e.kind = "Literal"
    THEN <<BinLine("%" \o ToString(n), "add", ty, e.value, "0")>>
    ELSE PostOrder(e.left, ty, n)
           \o PostOrder(e.right, ty, n + Len(PostOrder(e.left, ty, n)))
           \o <<BinLine("%" \o ToString(n + Len(PostOrder(e.left, ty, n))
                                          + Len(PostOrder(e.right, ty, 0))),
                        ArithmeticMnemonic(e.op), ty,
                        "%" \o ToString(n + Len(PostOrder(e.left, ty, n)) - 1),
                        "%" \o ToString(n + Len(PostOrder(e.left, ty, n))
                                          + Len(PostOrder(e.right, ty, 0)) - 1))>>

\* the result in the register reg is stored to %retval, loaded into the next
\* temporary %n, and returned
StoreLoadRet(ty, reg, n) ==
    <<StoreLine(ty, reg, "%retval", TRUE),
      LoadLine("%" \o ToString(n), ty, "%retval"),
      RetLine(ty, "%" \o ToString(n))>>

\* the lines emitted for the block bb0, after its label
EntryLines(code) ==
    SubSeq(code, LabelAt(code, 0) + 1, BlockEndAt(code, LabelAt(code, 0)))

\* the return type of the root as the LIR prints it
TailType == to_string[root.val.sig.return_type]

\* C25 as stated: for every tail expression built from literals and
\* arithmetic operators, a lone literal included, the LIR of the entry block
\* is the post-order instruction sequence of the expression, the root result
\* in a fresh temporary, then the store to %retval, the load and the ret.
C25_PostOrderAlways ==
    (pc = "emitted" /\ ArithmeticRoot)
        => /\ lir.st = "Ok"
           /\ EntryLines(lir.val) =
                 PostOrder(TailExpr, TailType, 0)
                   \o StoreLoadRet(TailType,
                                   "%" \o ToString(Len(PostOrder(TailExpr, TailType, 0)) - 1),
                                   Len(PostOrder(TailExpr, TailType, 0)))

\* C25: for a tail expression that is an arithmetic operation over literals
\* and further such operations, the LIR of the entry block is the post-order
\* instruction sequence of the expression (every literal operand an
\* add <ty> <lit>, 0 into a fresh temporary, every operation after its
\* operands), then the store of the root's temporary to %retval, the load
\* into a fresh temporary and the ret of it; a tail expression that is a
\* lone literal is stored to %retval as a constant, without a temporary.
C25_PostOrder ==
    (pc = "emitted" /\ ArithmeticRoot)
        => /\ lir.st = "Ok"
           /\ EntryLines(lir.val) =
                 IF TailExpr.kind = "Literal"
                 THEN StoreLoadRet(TailType, TailExpr.value, 0)
                 ELSE PostOrder(TailExpr, TailType, 0)
                        \o StoreLoadRet(TailType,
                              "%" \o ToString(Len(PostOrder(TailExpr, TailType, 0)) - 1),
                              Len(PostOrder(TailExpr, TailType, 0)))

\* 1 + 2 * 3 was emitted: the mul of %1 and %2 into %3 before the add of %0
\* and %3
C25_Witness ==
    /\ pc = "emitted"
    /\ lir.st = "Ok"
    /\ ArithmeticRoot
    /\ TailExpr = Binary(Literal("1"), "Plus",
                         Binary(Literal("2"), "Multiply", Literal("3")))
    /\ EntryLines(lir.val)[4] = BinLine("%3", "mul", "i32", "%1", "%2")
    /\ EntryLines(lir.val)[5] = BinLine("%4", "add", "i32", "%0", "%3")

(***************************************************************************)
(* C26: the tokens of tokenize cover the input.                            *)
(***************************************************************************)
RECURSIVE SumOfLens(_)
\* the sum of the lengths of the tokens ts
SumOfLens(ts) == IF ts = <<>> THEN 0 ELSE Head(ts).len + SumOfLens(Tail(ts))

\* the number of characters before the k-th token
OffsetOf(ts, k) == SumOfLens(SubSeq(ts, 1, k - 1))

\* the maximal runs of whitespace of the string s: pairs <<i, j>> with
\* whitespace at i..j and none right before i or right after j
MaximalRuns(s) ==
    {r \in (1..Len(s)) \X (1..Len(s)) :
        /\ r[1] <= r[2]
        /\ \A k \in r[1]..r[2] : is_whitespace[s[k]]
        /\ r[1] > 1 => ~is_whitespace[s[r[1] - 1]]
        /\ r[2] < Len(s) => ~is_whitespace[s[r[2] + 1]]}

\* the Whitespace tokens among ts
WhitespaceTokens(ts) == {k \in DOMAIN ts : ts[k].kind = TokenKind("Whitespace")}

\* the string holds no NUL character
NulFree(s) == \A k \in DOMAIN s : s[k] # EOF_CHAR

\* C26: for every input without a NUL character tokenize emits no Eof
\* token, every token has len >= 1, the lengths sum to the number of
\* characters of the input, and each maximal run of whitespace characters is
\* exactly one Whitespace token of the run's length (and there are no other
\* Whitespace tokens).
C26_TokensCoverInput ==
    (pc = "lexed" /\ NulFree(lex_input))
        => /\ \A k \in DOMAIN lexed :
                 lexed[k].kind # TokenKind("Eof") /\ lexed[k].len >= 1
           /\ SumOfLens(lexed) = Len(lex_input)
           /\ \A r \in MaximalRuns(lex_input) :
                 \E k \in WhitespaceTokens(lexed) :
                    /\ OffsetOf(lexed, k) = r[1] - 1
                    /\ lexed[k].len = r[2] - r[1] + 1
           /\ Cardinality(WhitespaceTokens(lexed)) = Cardinality(MaximalRuns(lex_input))

\* a run of two whitespace characters before a semicolon became one
\* Whitespace token of length 2
C26_Witness ==
    /\ pc = "lexed"
    /\ lex_input = <<" ", "U+000A", ";">>
    /\ lexed = <<Token_new(TokenKind("Whitespace"), 2),
                 Token_new(TokenKind("Semicolon"), 1)>>

(***************************************************************************)
(* C27: the SwitchInt of every If survives.                                *)
(***************************************************************************)
\* the blocks of the body that end in a SwitchInt
SwitchBlocks(b) ==
    {bb \in 0..(Len(b.basic_blocks) - 1) :
        /\ b.basic_blocks[bb + 1].terminator # None
        /\ b.basic_blocks[bb + 1].terminator.val.kind = "SwitchInt"}

\* C27: for every If expression of the function body, an If that is the
\* tail of another If's then block or its else-if arm included, the final
\* Body still holds that If's SwitchInt on the block where its condition was
\* lowered: there are as many blocks ending in a SwitchInt as If
\* expressions, each reachable from BasicBlock(0) together with its then
\* block.
C27_EverySwitchIntSurvives ==
    (pc = "lowered" /\ hir.st = "Ok" /\ root.val.body # None)
        => /\ Cardinality(SwitchBlocks(hir.val)) = IfsOfStmts(root.val.body.val.stmts)
           /\ \A bb \in SwitchBlocks(hir.val) :
                 /\ bb \in Reachable(hir.val)
                 /\ hir.val.basic_blocks[bb + 1].terminator.val.targets.blocks[1]
                       \in Reachable(hir.val)

(***************************************************************************)
(* C28: branch polarity in the HIR and in the LIR.                         *)
(***************************************************************************)
\* the label a br i1 %c, label %X, label %Y transfers to when %c is v: the
\* first label for 1, the second for 0
BranchTaken(line, v) == IF v = 1 THEN line.label_true ELSE line.label_false

\* the blocks that the HIR pairs with the value v in the SwitchInt of the
\* block bb: the targets of the edges of the graph that leave bb with the
\* weight v
PairedWith(b, bb, v) ==
    {graphify(b).edges[k].target : k \in
        {j \in DOMAIN graphify(b).edges :
            /\ graphify(b).edges[j].source = bb
            /\ graphify(b).edges[j].weight = ToString(v)}}

\* the emitted blocks that end a SwitchInt with the values [0, 1]
EmittedSwitches ==
    {bb \in SwitchBlocks(codegen_body.val) :
        /\ LabelAt(lir.val, bb) # 0
        /\ codegen_body.val.basic_blocks[bb + 1].terminator.val.targets.values = <<0, 1>>}

\* C28: the HIR and the LIR agree on branch polarity: for each SwitchInt
\* with the values [0, 1] the block that the emitted br i1 transfers to when
\* the condition register is v (the first label for 1, the second for 0) is
\* the block paired with the value v in the SwitchInt targets.
C28_BranchPolarityAgrees ==
    (pc = "emitted" /\ lir.st = "Ok" /\ graphify(codegen_body.val).st = "Ok")
        => \A bb \in EmittedSwitches :
              /\ LastLineOf(lir.val, bb).op = "br_cond"
              /\ \A v \in {0, 1} :
                    \A t \in PairedWith(codegen_body.val, bb, v) :
                       BranchTaken(LastLineOf(lir.val, bb), v) = bb_label(t)

(***************************************************************************)
(* C29: the numbered temporaries.                                          *)
(***************************************************************************)
\* the registers defined on the left-hand sides of the instructions of a
\* listing, in text order, the pointers of the start: prelude left out
NumberedDefinitions(code) ==
    [k \in DOMAIN SelectSeq(code, LAMBDA line : "dst" \in DOMAIN line /\ line.op # "alloca")
        |-> SelectSeq(code, LAMBDA line : "dst" \in DOMAIN line /\ line.op # "alloca")[k].dst]

\* the number of values get_unique_reg issued while the code of b was built
IssuedRegisters(b) == build_fn_code(Codegen_new(b)).reg_id

\* C29: in the LIR emitted for a Body that hir_build produced, the numbered
\* temporaries defined on left-hand sides are, in text order, exactly %0,
\* %1, %2, ... without gap or repetition, as many as get_unique_reg issued.
C29_TemporariesInIssueOrder ==
    (pc = "emitted" /\ lir.st = "Ok" /\ root # None)
        => /\ Len(NumberedDefinitions(lir.val)) = IssuedRegisters(codegen_body.val)
           /\ \A k \in DOMAIN NumberedDefinitions(lir.val) :
                 NumberedDefinitions(lir.val)[k] = "%" \o ToString(k - 1)

\* a listing that defines %0 .. %4 or more, as many as were issued
C29_Witness ==
    /\ pc = "emitted"
    /\ lir.st = "Ok"
    /\ root # None
    /\ Len(NumberedDefinitions(lir.val)) >= 5
    /\ NumberedDefinitions(lir.val)[5] = "%4"
    /\ IssuedRegisters(codegen_body.val) = Len(NumberedDefinitions(lir.val))

(***************************************************************************)
(* C30: the traversal of build_fn_code ends on every control-flow graph.   *)
(***************************************************************************)
\* every block reachable from BasicBlock(0) has a terminator whose targets
\* are blocks of the body
WellFormedCfg(b) ==
    \A bb \in Reachable(b) :
        /\ bb < Len(b.basic_blocks)
        /\ b.basic_blocks[bb + 1].terminator # None
        /\ \A k \in DOMAIN SuccessorsOf(b, bb) : SuccessorsOf(b, bb)[k] < Len(b.basic_blocks)

\* a reachable block has an edge to itself or to a block of a lower index
HasBackEdge(b) ==
    \E bb \in Reachable(b) :
        \E k \in DOMAIN SuccessorsOf(b, bb) : SuccessorsOf(b, bb)[k] <= bb

\* no block of the body has statements and every SwitchInt reads a user
\* local: nothing but the traversal and the terminators is emitted, and no
\* operand is missing from place_map
StatementFree(b) ==
    /\ \A i \in DOMAIN b.basic_blocks : b.basic_blocks[i].statements = <<>>
    /\ \A bb \in SwitchBlocks(b) :
          /\ b.basic_blocks[bb + 1].terminator.val.value.kind = "Copy"
          /\ b.local_decls[b.basic_blocks[bb + 1].terminator.val.value.place.local + 1]
                .local_info.kind = "User"

\* the number of times the label of bb was emitted
TimesEmitted(bb) == Cardinality({i \in DOMAIN Emitted : Emitted[i] = bb})

\* C30: for every Body in which all reachable blocks have a terminator with
\* in-range targets, control-flow graphs with cycles included, the
\* traversal of build_fn_code ends: the queue empties, every reachable
\* block was emitted exactly once and no other block was emitted.  The
\* call returns Ok when no statement and no operand is there to fail.
C30_TraversalEnds ==
    (pc = "emitted" /\ WellFormedCfg(codegen_body.val))
        => /\ StatementFree(codegen_body.val) => lir.st = "Ok"
           /\ lir.st = "Ok"
                => \A bb \in 0..(Len(codegen_body.val.basic_blocks) - 1) :
                      TimesEmitted(bb) = IF bb \in Reachable(codegen_body.val) THEN 1 ELSE 0

\* a cycle through all four blocks, the last one going back to bb0, and a
\* listing that holds each block once
C30_Witness ==
    /\ pc = "emitted"
    /\ lir.st = "Ok"
    /\ WellFormedCfg(codegen_body.val)
    /\ HasBackEdge(codegen_body.val)
    /\ Len(codegen_body.val.basic_blocks) >= 4
    /\ Reachable(codegen_body.val) = 0..(Len(codegen_body.val.basic_blocks) - 1)
    /\ SuccessorsOf(codegen_body.val, Len(codegen_body.val.basic_blocks) - 1) = <<0>>
    /\ \A bb \in Reachable(codegen_body.val) : TimesEmitted(bb) = 1

====
